---- MODULE Spec2Model ----
(***************************************************************************)
(* A model of the shopanalyzer site testing system: the SiteAnalyzer       *)
(* session state (src/src/analyzers/site_analyzer.py), the RequestParser   *)
(* (src/src/parsers/request_parser.py), the request classifier            *)
(* (src/src/utils/request_handlers.py) and the SiteTester orchestration    *)
(* (src/src/testers/site_tester.py).                                       *)
(*                                                                         *)
(* Text.  A Python string is modelled as a sequence of tokens; a token is  *)
(* an indivisible run of characters.  "p in s" is contiguous-subsequence   *)
(* containment, s.lower() maps every token to its lower-case form, and     *)
(* the empty string is the empty sequence.  The token alphabets are        *)
(* chosen so that every pattern the code searches for is a sequence of     *)
(* whole tokens.                                                           *)
(***************************************************************************)
EXTENDS Integers, Sequences, FiniteSets, TLC

VARIABLES
    analyzer,   \* SiteAnalyzer: the five state groups set by reset_flags
    last,       \* the most recent SiteAnalyzer call: its name, the exception that
                \* left it, the log lines it wrote, and whether the object was
                \* freshly reset when it was made
    observed,   \* the number of requests observed since the last reset_flags
    tester,     \* SiteTester: its configuration, the sites file, and the position
                \* and locals of run_tests
    arg,        \* pure-function harness: the URL a function is applied to
    called,     \* pure-function harness: the function applied ("" before the call)
    ret         \* pure-function harness: the value returned

vars == <<analyzer, last, observed, tester, arg, called, ret>>

-----------------------------------------------------------------------------
(* Bounds of the model *)

\* longest URL (in tokens) handed to the URL functions
MaxUrlLen == 4

\* most requests observed between two reset_flags
MaxRequests == 2

\* most entries of the sites file
MaxSites == 2

\* most requests delivered while one site of a batch is analysed
MaxDeliveries == 1

-----------------------------------------------------------------------------
(* Text helpers *)

Min(S) == CHOOSE x \in S : \A y \in S : x <= y

\* Python: p in s
Contains(s, p) ==
    \E i \in 0..(Len(s) - Len(p)) : \A j \in 1..Len(p) : s[i + j] = p[j]

\* str.lower() on one token
LowerTok(t) ==
    CASE t = "APPLOVIN.COM" -> "applovin.com"
      [] t = "ALBSS.COM" -> "albss.com"
      [] t = "V2" -> "v2"
      [] t = "Shopify" -> "shopify"
      [] t = "AppLovin" -> "applovin"
      [] t = "GTM.start" -> "gtm.start"
      [] t = "shopify.loadFeatures" -> "shopify.loadfeatures"
      [] t = "shopify.buy.Button" -> "shopify.buy.button"
      [] t = "X-Shopify-Storefront-Access-Token" -> "x-shopify-storefront-access-token"
      [] t = "X-Shopify-Storefront-API-Version" -> "x-shopify-storefront-api-version"
      [] OTHER -> t

\* Python: s.lower()
Lower(s) == [i \in 1..Len(s) |-> LowerTok(s[i])]

\* index of the first occurrence of token t in s, 0 when there is none
IndexOf(s, t) ==
    IF \E i \in 1..Len(s) : s[i] = t
    THEN Min({i \in 1..Len(s) : s[i] = t})
    ELSE 0

\* Python: s.split(t)
RECURSIVE Split(_, _)
Split(s, t) ==
    LET i == IndexOf(s, t) IN
    IF i = 0 THEN <<s>>
    ELSE <<SubSeq(s, 1, i - 1)>> \o Split(SubSeq(s, i + 1, Len(s)), t)

\* all token sequences over alphabet A of length at most n
SeqsUpTo(A, n) == UNION {[1..k -> A] : k \in 0..n}

-----------------------------------------------------------------------------
(* src/src/constants.py *)

\* the registry, in the dict's insertion order
DOMAINS_OF_INTEREST == <<
    [domain |-> <<"applovin.com">>, type |-> "tracking", critical |-> TRUE],
    [domain |-> <<"axon.ai">>, type |-> "analytics", critical |-> FALSE],
    [domain |-> <<"albss.com">>, type |-> "analytics", critical |-> FALSE] >>

\* indicator -> the substrings looked for in the page content.  The tokens
\* "link[href*=" and "script[src*=" end with the opening double quote and the
\* token "]" starts with the closing one.
TRACKING_INDICATORS == [
    shopify |-> {<<"my", "shopify", ".com">>, <<"shopify", ".shop">>,
                 <<"link[href*=", "shopify", "]">>, <<"script[src*=", "shopify", "]">>},
    gtm |-> {<<"gtm.start">>},
    axon |-> {<<"axon">>},
    ga |-> {<<"ga.js">>, <<"analytics.js">>},
    ga4 |-> {<<"gtag">>} ]

\* the pattern lists are kept as sequences: the code scans them in order
HEADLESS_SHOPIFY_INDICATORS == [
    api_endpoints |-> <<
        <<"store", ".", "my", "shopify", ".com", "/api/graphql">>,
        <<"shopify", ".com", "/api/graphql">>,
        <<"shopify", ".com", "/api/2023-01/graphql.json">>,
        <<"shopify", ".com", "/api/2022-10/graphql.json">> >>,
    script_patterns |-> <<
        <<"@shopify/hydrogen">>,
        <<"@shopify/storefront-api">>,
        <<"shopify.loadFeatures">>,
        <<"shopify.buy.Button">>,
        <<"shopify-buy">> >>,
    meta_tags |-> <<
        <<"shopify-digital-wallet">>,
        <<"shopify-checkout-api-token">>,
        <<"shopify-storefront-api-token">> >>,
    request_headers |-> <<
        <<"X-Shopify-Storefront-Access-Token">>,
        <<"X-Shopify-Storefront-API-Version">> >> ]

-----------------------------------------------------------------------------
(* src/src/utils/request_handlers.py *)

\* the for loop of is_domain_of_interest from registry entry i on
RECURSIVE domain_loop(_, _)
domain_loop(url_lower, i) ==
    IF i > Len(DOMAINS_OF_INTEREST) THEN <<FALSE, FALSE>>
    ELSE IF Contains(url_lower, DOMAINS_OF_INTEREST[i].domain)
         THEN <<TRUE, DOMAINS_OF_INTEREST[i].critical>>
         ELSE domain_loop(url_lower, i + 1)

\* a classifier that forgets to lower-case the URL
is_domain_of_interest_case_sensitive(url) == domain_loop(url, 1)

\* is_domain_of_interest(url) -> (is_interesting, is_critical)
is_domain_of_interest(url) == domain_loop(Lower(url), 1)

-----------------------------------------------------------------------------
(* src/src/parsers/request_parser.py: parse_url_parameters *)

\* urlparse(url).query: the fragment is cut at the first '#', then the query
\* is what follows the first '?' of the rest
urlparse_query(url) ==
    LET h == IndexOf(url, "#")
        u == IF h = 0 THEN url ELSE SubSeq(url, 1, h - 1)
        q == IndexOf(u, "?")
    IN IF q = 0 THEN <<>> ELSE SubSeq(u, q + 1, Len(u))

\* parse_qs(query) as the sequence of (name, value) pairs it keeps, in order:
\* fields are separated by '&', split at their first '=', and a field with no
\* '=' or with a blank value is dropped (keep_blank_values is False)
parse_qs(query) ==
    LET fields == Split(query, "&")
        pair(f) == LET e == IndexOf(f, "=") IN
                   <<SubSeq(f, 1, e - 1), SubSeq(f, e + 1, Len(f))>>
        keep(f) == IndexOf(f, "=") > 0 /\ pair(f)[2] /= <<>>
    IN [i \in 1..Len(SelectSeq(fields, keep)) |-> pair(SelectSeq(fields, keep)[i])]

\* url_params.get(name, [''])[0]: the first value of the parameter, '' if absent
qs_first(params, name) ==
    LET hits == {i \in 1..Len(params) : params[i][1] = name} IN
    IF hits = {} THEN <<>> ELSE params[Min(hits)][2]

\* parse_url_parameters(url) -> (alart, aleid)
parse_url_parameters(url) ==
    LET url_params == parse_qs(urlparse_query(url)) IN
    <<qs_first(url_params, <<"alart">>), qs_first(url_params, <<"aleid">>)>>

-----------------------------------------------------------------------------
(* src/src/testers/site_tester.py: prepare_url *)

\* the synthetic query "alart=test_identifier1234&aleid=test_identifier5678"
SyntheticQuery ==
    <<"alart", "=", "test_identifier1234", "&", "aleid", "=", "test_identifier5678">>

\* prepare_url(url)
prepare_url(url) ==
    IF ~Contains(url, <<"aleid", "=">>) /\ ~Contains(url, <<"alart", "=">>)
    THEN LET separator == IF Contains(url, <<"?">>) THEN <<"&">> ELSE <<"?">> IN
         url \o separator \o SyntheticQuery
    ELSE url

-----------------------------------------------------------------------------
(* JSON objects.  A dict is the set of its <<key, value>> pairs. *)

Has(d, k) == \E kv \in d : kv[1] = k

\* Python: d.get(k, default)
Get(d, k, default) == IF Has(d, k) THEN (CHOOSE kv \in d : kv[1] = k)[2] ELSE default

-----------------------------------------------------------------------------
(* src/src/parsers/request_parser.py: the two pixel payload formats *)

\* parse_v1_request(json_data) -> (event_name, applovin_data)
parse_v1_request(json_data) ==
    LET event_name == Get(json_data, "name", "")
        applovin_data == Get(json_data, "applovin", {})
    IN IF applovin_data = {}
       THEN <<event_name, Get(json_data, "axon", {})>>
       ELSE <<event_name, applovin_data>>

\* a parse_v2_request whose get calls name no default
parse_v2_request_no_defaults(json_data) ==
    LET applovin_data == Get(json_data, "applovin", {})
        event_data == Get(json_data, "event", {})
    IN <<Get(event_data, "name", "None"),
         Get(applovin_data, "art", <<"None">>),
         Get(applovin_data, "eventId", <<"None">>)>>

\* parse_v2_request(json_data) -> (event_name, request_art, request_event_id)
parse_v2_request(json_data) ==
    LET applovin_data == Get(json_data, "applovin", {})
        event_data == Get(json_data, "event", {})
    IN <<Get(event_data, "name", ""),
         Get(applovin_data, "art", <<>>),
         Get(applovin_data, "eventId", <<>>)>>

-----------------------------------------------------------------------------
(* src/src/analyzers/site_analyzer.py: SiteAnalyzer *)

\* an operation's outcome: the object after it, the exception leaving it
\* ("none" if it returns) and the kinds of log lines it wrote
Ok(self) == [self |-> self, exc |-> "none", log |-> {}]
Raise(self, e) == [self |-> self, exc |-> e, log |-> {}]

\* an except clause that writes a line and goes on
Swallow(r, line) == [self |-> r.self, exc |-> "none", log |-> r.log \cup {line}]

\* an object whose five groups hold nothing yet
Blank ==
    [content_indicators |-> [shopify |-> FALSE, headless_shopify |-> FALSE,
                             axon |-> FALSE, gtm |-> FALSE, ga |-> FALSE, ga4 |-> FALSE],
     network_requests |-> [axon_ai |-> <<>>, albss |-> <<>>, applovin |-> <<>>,
                           tracking |-> <<>>, shopify_api |-> <<>>],
     events |-> [land |-> FALSE, page_view |-> FALSE, page_viewed |-> FALSE],
     parameter_matches |-> [aleid |-> FALSE, alart |-> FALSE],
     headless_indicators |-> [api_calls |-> FALSE, storefront_api |-> FALSE,
                              hydrogen |-> FALSE, buy_sdk |-> FALSE]]

\* a reset that forgets the request lists
reset_flags_keeps_requests(self) ==
    [self EXCEPT
        !.content_indicators = [shopify |-> FALSE, headless_shopify |-> FALSE,
                                axon |-> FALSE, gtm |-> FALSE, ga |-> FALSE, ga4 |-> FALSE],
        !.events = [land |-> FALSE, page_view |-> FALSE, page_viewed |-> FALSE],
        !.parameter_matches = [aleid |-> FALSE, alart |-> FALSE],
        !.headless_indicators = [api_calls |-> FALSE, storefront_api |-> FALSE,
                                 hydrogen |-> FALSE, buy_sdk |-> FALSE]]

\* a reset that forgets the event and parameter-match flags
reset_flags_keeps_events(self) ==
    [self EXCEPT
        !.content_indicators = [shopify |-> FALSE, headless_shopify |-> FALSE,
                                axon |-> FALSE, gtm |-> FALSE, ga |-> FALSE, ga4 |-> FALSE],
        !.network_requests = [axon_ai |-> <<>>, albss |-> <<>>, applovin |-> <<>>,
                              tracking |-> <<>>, shopify_api |-> <<>>],
        !.headless_indicators = [api_calls |-> FALSE, storefront_api |-> FALSE,
                                 hydrogen |-> FALSE, buy_sdk |-> FALSE]]

\* reset_flags(self)
reset_flags(self) ==
    [self EXCEPT
        !.content_indicators = [shopify |-> FALSE, headless_shopify |-> FALSE,
                                axon |-> FALSE, gtm |-> FALSE, ga |-> FALSE, ga4 |-> FALSE],
        !.network_requests = [axon_ai |-> <<>>, albss |-> <<>>, applovin |-> <<>>,
                              tracking |-> <<>>, shopify_api |-> <<>>],
        !.events = [land |-> FALSE, page_view |-> FALSE, page_viewed |-> FALSE],
        !.parameter_matches = [aleid |-> FALSE, alart |-> FALSE],
        !.headless_indicators = [api_calls |-> FALSE, storefront_api |-> FALSE,
                                 hydrogen |-> FALSE, buy_sdk |-> FALSE]]

\* SiteAnalyzer(): __init__ calls reset_flags on the new object
NewAnalyzer == reset_flags(Blank)

\* any(p.lower() in text for p in patterns), patterns a sequence
AnyPattern(patterns, text) ==
    \E i \in 1..Len(patterns) : Contains(text, Lower(patterns[i]))

\* one pass of the script loop: script i with the tally so far.  The result
\* is [self, found, exc]; an exception reading the src attribute ends the loop.
RECURSIVE script_loop(_, _, _, _)
script_loop(self, scripts, i, found) ==
    IF i > Len(scripts) THEN [self |-> self, found |-> found, exc |-> "none"]
    ELSE LET script == scripts[i] IN
         IF script.src.raises THEN [self |-> self, found |-> found, exc |-> "Error"]
         ELSE LET src == script.src.value
                  hyd == Contains(src, <<"@shopify/hydrogen">>)
                  sfa == Contains(src, <<"@shopify/storefront-api">>)
                  buy == Contains(src, <<"shopify-buy">>)
                  inline == /\ ~script.text.raises
                            /\ AnyPattern(HEADLESS_SHOPIFY_INDICATORS.script_patterns,
                                          Lower(script.text.value))
                  s1 == [self EXCEPT
                            !.headless_indicators.hydrogen = @ \/ hyd,
                            !.headless_indicators.storefront_api = @ \/ sfa,
                            !.headless_indicators.buy_sdk = @ \/ buy]
                  n == found + (IF hyd THEN 1 ELSE 0) + (IF sfa THEN 1 ELSE 0)
                             + (IF buy THEN 1 ELSE 0) + (IF inline THEN 1 ELSE 0)
              IN script_loop(s1, scripts, i + 1, n)

\* _check_headless_shopify_scripts(self, page): its own try/except swallows
\* every exception, keeping the sub-flags set so far
_check_headless_shopify_scripts(self, page) ==
    IF page.scripts.raises
    THEN Swallow(Raise(self, "Error"), "warning: headless scripts")
    ELSE LET r == script_loop(self, page.scripts.elems, 1, 0) IN
         IF r.exc /= "none"
         THEN Swallow(Raise(r.self, r.exc), "warning: headless scripts")
         ELSE IF r.found >= 2
              THEN Ok([r.self EXCEPT !.content_indicators.headless_shopify = TRUE])
              ELSE Ok(r.self)

\* the tally of one meta element: one per pattern found in its name or content
meta_tally(meta) ==
    Cardinality({i \in 1..Len(HEADLESS_SHOPIFY_INDICATORS.meta_tags) :
        LET pattern == Lower(HEADLESS_SHOPIFY_INDICATORS.meta_tags[i]) IN
        \/ Contains(Lower(meta.name.value), pattern)
        \/ Contains(Lower(meta.content.value), pattern)})

\* the meta loop: [found, exc]; an exception reading an attribute ends it
RECURSIVE meta_loop(_, _, _)
meta_loop(metas, i, found) ==
    IF i > Len(metas) THEN [found |-> found, exc |-> "none"]
    ELSE IF metas[i].name.raises \/ metas[i].content.raises
         THEN [found |-> found, exc |-> "Error"]
         ELSE meta_loop(metas, i + 1, found + meta_tally(metas[i]))

\* a meta check that adds its matches to those of the scripts
_check_headless_shopify_meta_tags_joint_tally(self, page) ==
    IF page.metas.raises
    THEN Swallow(Raise(self, "Error"), "warning: headless meta tags")
    ELSE LET r == meta_loop(page.metas.elems, 1, 0)
             sc == IF page.scripts.raises THEN 0
                   ELSE script_loop(self, page.scripts.elems, 1, 0).found
         IN IF r.exc /= "none"
            THEN Swallow(Raise(self, r.exc), "warning: headless meta tags")
            ELSE IF r.found + sc >= 2
                 THEN Ok([self EXCEPT !.content_indicators.headless_shopify = TRUE])
                 ELSE Ok(self)

\* a meta check that assigns the outcome of its threshold test to the flag
_check_headless_shopify_meta_tags_assigns(self, page) ==
    IF page.metas.raises
    THEN Swallow(Raise(self, "Error"), "warning: headless meta tags")
    ELSE LET r == meta_loop(page.metas.elems, 1, 0) IN
         IF r.exc /= "none"
         THEN Swallow(Raise(self, r.exc), "warning: headless meta tags")
         ELSE Ok([self EXCEPT !.content_indicators.headless_shopify = (r.found >= 2)])

\* _check_headless_shopify_meta_tags(self, page)
_check_headless_shopify_meta_tags(self, page) ==
    IF page.metas.raises
    THEN Swallow(Raise(self, "Error"), "warning: headless meta tags")
    ELSE LET r == meta_loop(page.metas.elems, 1, 0) IN
         IF r.exc /= "none"
         THEN Swallow(Raise(self, r.exc), "warning: headless meta tags")
         ELSE IF r.found >= 2
              THEN Ok([self EXCEPT !.content_indicators.headless_shopify = TRUE])
              ELSE Ok(self)

\* the body of check_page_content's try block
content_checks(self, page) ==
    IF page.content.raises THEN Raise(self, "Error")
    ELSE LET content == Lower(page.content.text)
             s1 == [self EXCEPT !.content_indicators =
                      [ind \in DOMAIN @ |->
                          IF ind \in DOMAIN TRACKING_INDICATORS
                          THEN \E pattern \in TRACKING_INDICATORS[ind] :
                                  Contains(content, Lower(pattern))
                          ELSE @[ind]]]
             r2 == _check_headless_shopify_scripts(s1, page)
             r3 == _check_headless_shopify_meta_tags(r2.self, page)
         IN [r3 EXCEPT !.log = r2.log \cup @]

\* a check_page_content without its try/except
check_page_content_no_except(self, page) == content_checks(self, page)

\* check_page_content(self, page): the except clause logs and returns
check_page_content(self, page) ==
    LET r == content_checks(self, page) IN
    IF r.exc /= "none" THEN Swallow(r, "warning: content checks") ELSE r

\* an API check whose tally runs over the session instead of one request
_check_shopify_api_request_session_tally(self, request) ==
    LET url == Lower(request.url)
        endpoint == AnyPattern(HEADLESS_SHOPIFY_INDICATORS.api_endpoints, url)
        header == AnyPattern(HEADLESS_SHOPIFY_INDICATORS.request_headers,
                             Lower(request.headers))
        n == Len(self.network_requests.shopify_api)
             + (IF endpoint THEN 1 ELSE 0) + (IF header THEN 1 ELSE 0)
        log(s) == [s EXCEPT !.headless_indicators.api_calls = TRUE,
                            !.network_requests.shopify_api =
                                Append(@, [url |-> request.url, method |-> request.method,
                                           type |-> request.resource_type,
                                           headers |-> request.headers])]
        s1 == IF endpoint THEN log(self) ELSE self
        s2 == IF header THEN log(s1) ELSE s1
    IN IF n >= 2 THEN [s2 EXCEPT !.content_indicators.headless_shopify = TRUE] ELSE s2

\* a _log_shopify_api_request that keeps POST requests only
_log_shopify_api_request_post_only(self, request) ==
    IF request.method /= "POST" THEN self
    ELSE [self EXCEPT !.network_requests.shopify_api =
            Append(@, [url |-> request.url, method |-> request.method,
                       type |-> request.resource_type, headers |-> request.headers])]

\* _log_shopify_api_request(self, request)
_log_shopify_api_request(self, request) ==
    [self EXCEPT !.network_requests.shopify_api =
        Append(@, [url |-> request.url, method |-> request.method,
                   type |-> request.resource_type, headers |-> request.headers])]

\* _check_shopify_api_request(self, request).  request.headers is the text
\* of str(headers).
_check_shopify_api_request(self, request) ==
    LET url == Lower(request.url)
        endpoint == AnyPattern(HEADLESS_SHOPIFY_INDICATORS.api_endpoints, url)
        header == AnyPattern(HEADLESS_SHOPIFY_INDICATORS.request_headers,
                             Lower(request.headers))
        s1 == IF endpoint
              THEN _log_shopify_api_request(
                       [self EXCEPT !.headless_indicators.api_calls = TRUE], request)
              ELSE self
        s2 == IF header
              THEN _log_shopify_api_request(
                       [s1 EXCEPT !.headless_indicators.api_calls = TRUE], request)
              ELSE s1
        api_indicators == (IF endpoint THEN 1 ELSE 0) + (IF header THEN 1 ELSE 0)
    IN IF api_indicators >= 2
       THEN [s2 EXCEPT !.content_indicators.headless_shopify = TRUE]
       ELSE s2

\* a log_event_data that compares without asking for values on both sides
log_event_data_matches_empty(self, event_name, version, art, event_id, url_alart, url_aleid) ==
    [self EXCEPT
        !.events.land = @ \/ event_name = "land",
        !.events.page_view = @ \/ event_name = "page_view",
        !.events.page_viewed = @ \/ event_name = "page_viewed",
        !.parameter_matches.alart = @ \/ art = url_alart,
        !.parameter_matches.aleid = @ \/ event_id = url_aleid,
        !.network_requests.tracking = Append(@, <<"Axon Event: ", event_name>>)]

\* a log_event_data that takes every unknown event for a land event
log_event_data_unknown_is_land(self, event_name, version, art, event_id, url_alart, url_aleid) ==
    LET s1 == IF event_name = "page_view" THEN [self EXCEPT !.events.page_view = TRUE]
              ELSE IF event_name = "page_viewed" THEN [self EXCEPT !.events.page_viewed = TRUE]
              ELSE [self EXCEPT !.events.land = TRUE]
        s2 == IF art /= <<>> /\ url_alart /= <<>> /\ art = url_alart
              THEN [s1 EXCEPT !.parameter_matches.alart = TRUE]
              ELSE s1
        s3 == IF event_id /= <<>> /\ url_aleid /= <<>> /\ event_id = url_aleid
              THEN [s2 EXCEPT !.parameter_matches.aleid = TRUE]
              ELSE s2
    IN [s3 EXCEPT !.network_requests.tracking = Append(@, <<"Axon Event: ", event_name>>)]

\* a log_event_data that sets the flags and writes no summary
log_event_data_no_summary(self, event_name, version, art, event_id, url_alart, url_aleid) ==
    LET s1 == IF event_name = "land" THEN [self EXCEPT !.events.land = TRUE]
              ELSE IF event_name = "page_view" THEN [self EXCEPT !.events.page_view = TRUE]
              ELSE IF event_name = "page_viewed" THEN [self EXCEPT !.events.page_viewed = TRUE]
              ELSE self
        s2 == IF art /= <<>> /\ url_alart /= <<>> /\ art = url_alart
              THEN [s1 EXCEPT !.parameter_matches.alart = TRUE]
              ELSE s1
    IN IF event_id /= <<>> /\ url_aleid /= <<>> /\ event_id = url_aleid
       THEN [s2 EXCEPT !.parameter_matches.aleid = TRUE]
       ELSE s2

\* a log_event_data that puts the newest event first in the tracking list
log_event_data_newest_first(self, event_name, version, art, event_id, url_alart, url_aleid) ==
    LET s1 == IF event_name = "land" THEN [self EXCEPT !.events.land = TRUE]
              ELSE IF event_name = "page_view" THEN [self EXCEPT !.events.page_view = TRUE]
              ELSE IF event_name = "page_viewed" THEN [self EXCEPT !.events.page_viewed = TRUE]
              ELSE self
        s2 == IF art /= <<>> /\ url_alart /= <<>> /\ art = url_alart
              THEN [s1 EXCEPT !.parameter_matches.alart = TRUE]
              ELSE s1
        s3 == IF event_id /= <<>> /\ url_aleid /= <<>> /\ event_id = url_aleid
              THEN [s2 EXCEPT !.parameter_matches.aleid = TRUE]
              ELSE s2
    IN [s3 EXCEPT !.network_requests.tracking = <<<<"Axon Event: ", event_name>>>> \o @]

\* log_event_data(self, event_name, version, art, event_id, url_alart, url_aleid)
log_event_data(self, event_name, version, art, event_id, url_alart, url_aleid) ==
    LET s1 == IF event_name = "land" THEN [self EXCEPT !.events.land = TRUE]
              ELSE IF event_name = "page_view" THEN [self EXCEPT !.events.page_view = TRUE]
              ELSE IF event_name = "page_viewed" THEN [self EXCEPT !.events.page_viewed = TRUE]
              ELSE self
        s2 == IF art /= <<>> /\ url_alart /= <<>> /\ art = url_alart
              THEN [s1 EXCEPT !.parameter_matches.alart = TRUE]
              ELSE s1
        s3 == IF event_id /= <<>> /\ url_aleid /= <<>> /\ event_id = url_aleid
              THEN [s2 EXCEPT !.parameter_matches.aleid = TRUE]
              ELSE s2
    IN [s3 EXCEPT !.network_requests.tracking = Append(@, <<"Axon Event: ", event_name>>)]

\* the body of _process_pixel_request's try block.  request.page_url is
\* request.frame.page.url; request.post_data.kind is "none" (no body),
\* "empty" (''), "text" (not JSON), "array" (JSON, but no object) or "object".
pixel_request(self, request) ==
    IF request.page_url.raises THEN Raise(self, "Error")
    ELSE LET p == parse_url_parameters(request.page_url.value)
             url_alart == p[1]
             url_aleid == p[2]
             post_data == request.post_data
         IN
         IF post_data.kind \in {"none", "empty"} THEN Ok(self)
         ELSE IF post_data.kind = "text" THEN Raise(self, "JSONDecodeError")
         ELSE IF post_data.kind = "array" THEN Raise(self, "AttributeError")
         ELSE LET json_data == post_data.json
                  url == request.url
              IN IF \/ Contains(url, <<"/", "shopify", "/", "v2", "/", "pixel">>)
                    \/ Contains(url, <<"/", "v2", "/", "pixel">>)
                 THEN LET v2 == parse_v2_request(json_data) IN
                      [Ok(log_event_data(self, v2[1], url, v2[2], v2[3],
                                         url_alart, url_aleid))
                          EXCEPT !.log = {"Axon Event"}]
                 ELSE LET v1 == parse_v1_request(json_data) IN
                      [Ok(log_event_data(self, v1[1], url,
                                         Get(v1[2], "art", <<>>), Get(v1[2], "eventId", <<>>),
                                         url_alart, url_aleid))
                          EXCEPT !.log = {"Axon Event"}]

\* a _process_pixel_request without its try/except
_process_pixel_request_no_except(self, request) == pixel_request(self, request)

\* _process_pixel_request(self, request): the except clause prints a warning
_process_pixel_request(self, request) ==
    LET r == pixel_request(self, request) IN
    IF r.exc /= "none" THEN Swallow(r, "warning: pixel request") ELSE r

\* the domain loop of check_request from registry entry i on: every matching
\* entry stores the request in the list of its domain
RECURSIVE store_request(_, _, _)
store_request(self, request, i) ==
    IF i > Len(DOMAINS_OF_INTEREST) THEN self
    ELSE LET domain == DOMAINS_OF_INTEREST[i].domain
             url == Lower(request.url)
             request_info == [url |-> url, method |-> request.method,
                              type |-> request.resource_type,
                              critical |-> DOMAINS_OF_INTEREST[i].critical]
             s1 == IF ~Contains(url, domain) THEN self
                   ELSE IF domain = <<"applovin.com">>
                        THEN [self EXCEPT !.network_requests.applovin = Append(@, request_info)]
                   ELSE IF domain = <<"axon.ai">>
                        THEN [self EXCEPT !.network_requests.axon_ai = Append(@, request_info)]
                   ELSE IF domain = <<"albss.com">>
                        THEN [self EXCEPT !.network_requests.albss = Append(@, request_info)]
                   ELSE self
         IN store_request(s1, request, i + 1)

\* check_request(self, request)
check_request(self, request) ==
    LET url == Lower(request.url)
        s1 == _check_shopify_api_request(self, request)
        s2 == store_request(s1, request, 1)
    IN IF /\ Contains(url, <<"https://", "b.", "applovin.com", "/">>)
          /\ Contains(url, <<"pixel">>)
          /\ request.method = "POST"
       THEN _process_pixel_request(s2, request)
       ELSE Ok(s2)

\* Shopify checks that query the DOM before looking at the header and the URL
shopify_checks_dom_first(self, page, response) ==
    IF \/ page.link_shopify = "raises"
       \/ page.script_shopify = "raises"
       \/ page.content.raises
    THEN Raise(self, "Error")
    ELSE Ok([self EXCEPT !.content_indicators.shopify =
                \/ response.present /\ Contains(Lower(response.server), <<"shopify">>)
                \/ Contains(page.url, <<"my", "shopify", ".com">>)
                \/ page.link_shopify = "found"
                \/ page.script_shopify = "found"
                \/ Contains(page.content.text, <<"Shopify", ".shop">>)])

\* the body of check_shopify_indicators' try block.  response.present is
\* "response is not None", response.server the server header ('' if none);
\* page.link_shopify and page.script_shopify are the two query_selector
\* results: "found", "none" or "raises".
shopify_checks(self, page, response) ==
    IF response.present /\ Contains(Lower(response.server), <<"shopify">>)
    THEN Ok([self EXCEPT !.content_indicators.shopify = TRUE])
    ELSE IF Contains(page.url, <<"my", "shopify", ".com">>)
    THEN Ok([self EXCEPT !.content_indicators.shopify = TRUE])
    ELSE IF \/ page.link_shopify = "raises"
            \/ page.script_shopify = "raises"
            \/ page.content.raises
    THEN Raise(self, "Error")
    ELSE Ok([self EXCEPT !.content_indicators.shopify =
                \/ page.link_shopify = "found"
                \/ page.script_shopify = "found"
                \/ Contains(page.content.text, <<"Shopify", ".shop">>)])

\* check_shopify_indicators(self, page, response)
check_shopify_indicators(self, page, response) ==
    LET r == shopify_checks(self, page, response) IN
    IF r.exc /= "none" THEN Swallow(r, "warning: shopify indicators") ELSE r

\* urlparse(url).netloc: what follows the scheme up to the first '/', '?' or '#'
urlparse_netloc(url) ==
    IF url = <<>> \/ url[1] /= "https://" THEN <<>>
    ELSE LET rest == SubSeq(url, 2, Len(url))
             ends == {i \in 1..Len(rest) : rest[i] \in {"/", "?", "#"}}
         IN IF ends = {} THEN rest ELSE SubSeq(rest, 1, Min(ends) - 1)

\* urlparse raises ValueError("Invalid IPv6 URL") on an unbalanced bracket
urlparse_raises(url) ==
    LET netloc == urlparse_netloc(url) IN
    Contains(netloc, <<"[">>) /= Contains(netloc, <<"]">>)

\* analyze_static(self, site_name, url): the outcome carries the result
analyze_static(self, site_name, url) ==
    LET s0 == reset_flags(self) IN
    IF urlparse_raises(url) THEN Raise(s0, "ValueError")
    ELSE LET query_params == parse_qs(urlparse_query(url))
             has(name) == \E i \in 1..Len(query_params) : query_params[i][1] = <<name>>
             domain == Lower(urlparse_netloc(url))
             s1 == IF \/ Contains(domain, <<".", "my", "shopify", ".com">>)
                      \/ Contains(domain, <<"shopify", ".com">>)
                   THEN [s0 EXCEPT !.content_indicators.shopify = TRUE]
                   ELSE s0
             s2 == IF has("aleid") THEN [s1 EXCEPT !.parameter_matches.aleid = TRUE] ELSE s1
             s3 == IF has("alart") THEN [s2 EXCEPT !.parameter_matches.alart = TRUE] ELSE s2
             tracking_params == [param \in {"utm_source", "utm_medium", "utm_campaign"} |->
                                    has(param)]
             s4 == IF \E param \in DOMAIN tracking_params :
                        /\ tracking_params[param]
                        /\ Lower(qs_first(query_params, <<param>>)) = <<"applovin">>
                   THEN [s3 EXCEPT !.events.land = TRUE]
                   ELSE s3
         IN [self |-> s4, exc |-> "none", log |-> {},
             result |->
                [site |-> site_name,
                 url |-> url,
                 analysis_type |-> "static",
                 domain |-> domain,
                 tracking_parameters |->
                    [aleid |-> s4.parameter_matches.aleid,
                     alart |-> s4.parameter_matches.alart,
                     utm_source |-> tracking_params["utm_source"],
                     utm_medium |-> tracking_params["utm_medium"],
                     utm_campaign |-> tracking_params["utm_campaign"]],
                 indicators |->
                    [shopify |-> s4.content_indicators.shopify,
                     tracking_present |->
                        \/ \E param \in DOMAIN tracking_params : tracking_params[param]
                        \/ s4.parameter_matches.aleid
                        \/ s4.parameter_matches.alart],
                 events |-> [land |-> s4.events.land]]]

\* get_results(self, site_name, site_url, warning); warning "" is no warning,
\* and the verdict then has no "warning" key
get_results(self, site_name, site_url, warning) ==
    [site |-> site_name,
     url |-> site_url,
     is_shopify |-> self.content_indicators.shopify,
     is_headless_shopify |-> self.content_indicators.headless_shopify,
     headless_shopify_details |->
        [uses_storefront_api |-> self.headless_indicators.storefront_api,
         uses_hydrogen |-> self.headless_indicators.hydrogen,
         uses_buy_sdk |-> self.headless_indicators.buy_sdk,
         has_api_calls |-> self.headless_indicators.api_calls,
         api_calls_count |-> Len(self.network_requests.shopify_api)],
     has_axon |-> self.content_indicators.axon,
     has_gtm |-> self.content_indicators.gtm,
     has_ga |-> self.content_indicators.ga,
     has_ga4 |-> self.content_indicators.ga4,
     has_land_event |-> self.events.land,
     has_page_view_event |-> self.events.page_view,
     has_page_viewed_event |-> self.events.page_viewed,
     has_axon_ai_requests |-> Len(self.network_requests.axon_ai),
     has_albss_requests |-> Len(self.network_requests.albss),
     has_matching_aleid |-> self.parameter_matches.aleid,
     has_matching_alart |-> self.parameter_matches.alart,
     has_applovin_requests |-> Len(self.network_requests.applovin),
     warning |-> warning]

\* a get_results that hands the session over and starts a new one
call_get_results_draining(self, site_name, site_url, warning) ==
    [self |-> reset_flags(self), exc |-> "none", log |-> {},
     value |-> get_results(self, site_name, site_url, warning)]

\* the call self.get_results(site_name, site_url, warning): the session it
\* leaves and the dictionary it returns; lines 447-474 assign to the local
\* results only
call_get_results(self, site_name, site_url, warning) ==
    [self |-> self, exc |-> "none", log |-> {},
     value |-> get_results(self, site_name, site_url, warning)]

-----------------------------------------------------------------------------
(* Inputs: the pages, responses and requests the browser hands to a session *)

Val(v) == [raises |-> FALSE, value |-> v]
Raises == [raises |-> TRUE, value |-> <<>>]

MkPage(url, content, scripts, metas, link, script) ==
    [url |-> url, content |-> content, scripts |-> scripts, metas |-> metas,
     link_shopify |-> link, script_shopify |-> script]

Text(t) == [raises |-> FALSE, text |-> t]
NoText == [raises |-> TRUE, text |-> <<>>]
Elems(e) == [raises |-> FALSE, elems |-> e]
NoElems == [raises |-> TRUE, elems |-> <<>>]

ShopUrl == <<"https://", "shop.test", "/">>
MyShopifyUrl == <<"https://", "store", ".", "my", "shopify", ".com", "/">>

ScriptPlain == [src |-> Val(<<"app.js">>), text |-> Val(<<>>)]
ScriptHydrogen == [src |-> Val(<<"cdn/", "@shopify/hydrogen">>), text |-> Val(<<>>)]
ScriptInline == [src |-> Val(<<>>), text |-> Val(<<"shopify.loadFeatures">>)]
ScriptBuy == [src |-> Val(<<"shopify-buy">>), text |-> Val(<<"shopify.buy.Button">>)]
ScriptInlineHydrogen == [src |-> Val(<<>>), text |-> Val(<<"@shopify/hydrogen">>)]
ScriptNoSrc == [src |-> Raises, text |-> Val(<<>>)]
ScriptNoText == [src |-> Val(<<"@shopify/storefront-api">>), text |-> Raises]

MetaPlain == [name |-> Val(<<"viewport">>), content |-> Val(<<"width">>)]
MetaWallet == [name |-> Val(<<"shopify-digital-wallet">>), content |-> Val(<<"/wallets">>)]
MetaTokens == [name |-> Val(<<"shopify-checkout-api-token">>),
               content |-> Val(<<"shopify-storefront-api-token">>)]
MetaNoName == [name |-> Raises, content |-> Val(<<>>)]

\* a page with the given content and no script or meta element
ContentPage(t) == MkPage(ShopUrl, t, Elems(<<>>), Elems(<<>>), "none", "none")

\* a page with the given script and meta elements
ElementPage(t, scripts, metas) == MkPage(ShopUrl, Text(t), scripts, metas, "none", "none")

\* the pages whose content is checked
ContentPages ==
    {ContentPage(Text(t)) :
        t \in {<<>>,
               <<"cdn.", "my", "shopify", ".com">>,
               <<"Shopify", ".shop", "gtag">>,
               <<"GTM.start", "axon", "analytics.js">>}}
    \cup {ContentPage(NoText)}
    \cup {MkPage(ShopUrl, NoText, Elems(<<ScriptHydrogen, ScriptInline>>),
                 Elems(<<MetaTokens>>), "none", "none")}
    \cup {ElementPage(<<"gtag">>, sc, Elems(<<>>)) :
            sc \in {Elems(<<ScriptHydrogen, ScriptInline>>),
                    Elems(<<ScriptPlain, ScriptBuy>>),
                    Elems(<<ScriptNoText, ScriptHydrogen>>),
                    Elems(<<ScriptHydrogen, ScriptNoSrc, ScriptInline>>),
                    NoElems}}
    \cup {ElementPage(<<"axon">>, Elems(<<ScriptHydrogen>>), m) :
            m \in {Elems(<<MetaWallet>>),
                   Elems(<<MetaPlain, MetaTokens>>),
                   Elems(<<MetaTokens, MetaNoName>>),
                   NoElems}}
    \cup {ElementPage(<<>>, Elems(<<ScriptBuy>>), Elems(<<>>)),
          ElementPage(<<>>, Elems(<<ScriptHydrogen>>), Elems(<<>>)),
          ElementPage(<<>>, Elems(<<>>), Elems(<<MetaTokens>>)),
          ElementPage(<<>>, Elems(<<>>), Elems(<<MetaWallet>>)),
          ElementPage(<<>>, Elems(<<ScriptInlineHydrogen>>), Elems(<<>>))}

NoResponse == [present |-> FALSE, server |-> <<>>]
Response(server) == [present |-> TRUE, server |-> server]

\* the <<page, response>> pairs checked for Shopify indicators
ShopifyChecks ==
    {<<ContentPage(Text(<<>>)), r>> :
        r \in {NoResponse, Response(<<"nginx">>), Response(<<"Shopify">>)}}
    \cup {<<MkPage(MyShopifyUrl, NoText, Elems(<<>>), Elems(<<>>), "raises", "none"),
            NoResponse>>,
          <<MkPage(ShopUrl, NoText, Elems(<<>>), Elems(<<>>), "raises", "none"),
            Response(<<"Shopify">>)>>}
    \cup {<<MkPage(ShopUrl, t, Elems(<<>>), Elems(<<>>), l, sc), Response(<<>>)>> :
            t \in {Text(<<"Shopify", ".shop">>), Text(<<"cdn.", "my", "shopify", ".com">>),
                   NoText},
            l \in {"none", "found", "raises"},
            sc \in {"none", "found"}}

\* attribution values
Art1234 == <<"test_identifier1234">>
Eid5678 == <<"test_identifier5678">>

\* the vendor-data objects of a pixel payload
VendorMatch == {<<"art", Art1234>>, <<"eventId", Eid5678>>}
VendorOther == {<<"art", <<"A1">>>>, <<"eventId", <<"E9">>>>}
VendorBlank == {<<"art", <<>>>>, <<"eventId", <<>>>>}

\* the JSON objects posted to the pixel endpoint
PayloadLand ==
    {<<"name", "land">>, <<"applovin", VendorMatch>>, <<"event", {<<"name", "page_view">>}>>}
PayloadOther ==
    {<<"name", "page_view">>, <<"applovin", VendorOther>>,
     <<"event", {<<"name", "page_viewed">>}>>}
PayloadAxon ==
    {<<"name", "page_viewed">>, <<"applovin", {}>>, <<"axon", VendorMatch>>,
     <<"event", {<<"name", "checkout">>}>>}
PayloadBlank == {<<"applovin", VendorBlank>>, <<"event", {<<"name", "land">>}>>}
Payloads == {PayloadLand, PayloadOther, PayloadAxon, PayloadBlank, {}}

Body(kind) == [kind |-> kind, json |-> {}]
JsonBody(json) == [kind |-> "object", json |-> json]

\* the URL of the page a pixel request comes from: as prepared by
\* prepare_url, without a query, or with an alart of its own
PreparedUrl == prepare_url(ShopUrl)
OwnArtUrl == ShopUrl \o <<"?", "alart", "=", "A1">>

PixelV1 == <<"https://", "b.", "applovin.com", "/", "pixel">>
PixelV2 == <<"https://", "b.", "applovin.com", "/", "v2", "/", "pixel">>
PixelShopifyV2 == <<"https://", "b.", "applovin.com", "/", "shopify", "/", "v2", "/", "pixel">>
PixelUpper == <<"https://", "b.", "APPLOVIN.COM", "/", "V2", "/", "pixel">>
PixelQueryV2 == <<"https://", "b.", "applovin.com", "/", "pixel", "?", "next", "=",
                  "/", "v2", "/", "pixel">>

MkRequest(url, method, headers, post_data, page_url) ==
    [url |-> url, method |-> method,
     resource_type |-> IF method = "POST" THEN "fetch" ELSE "script",
     headers |-> headers, post_data |-> post_data, page_url |-> page_url]

Pixel(url, post_data, page_url) == MkRequest(url, "POST", <<>>, post_data, page_url)

\* POST requests to the pixel endpoint
PixelRequests ==
    {Pixel(u, JsonBody(j), Val(pu)) :
        u \in {PixelV1, PixelV2}, j \in Payloads, pu \in {PreparedUrl, ShopUrl}}
    \cup {Pixel(PixelV2, b, Val(PreparedUrl)) :
            b \in {Body("none"), Body("empty"), Body("text"), Body("array")}}
    \cup {Pixel(PixelV1, JsonBody(j), Val(OwnArtUrl)) : j \in {PayloadLand, PayloadOther}}
    \cup {Pixel(u, JsonBody(PayloadLand), Val(PreparedUrl)) :
            u \in {PixelShopifyV2, PixelUpper, PixelQueryV2}}
    \cup {Pixel(PixelV2, JsonBody(PayloadLand), Raises)}

GraphqlUrl == <<"https://", "store", ".", "my", "shopify", ".com", "/api/graphql">>
StorefrontHeader == <<"x-shopify-storefront-access-token", ": ", "t0ken">>

\* the other requests
OtherRequests ==
    {MkRequest(u, "GET", <<>>, Body("none"), Val(PreparedUrl)) :
        u \in {<<"https://", "unrelated.test", "/">>,
               <<"https://", "cdn.", "axon.ai", "/", "sdk.js">>,
               <<"https://", "c.", "ALBSS.COM", "/">>,
               <<"https://", "axon.ai", "/", "?", "ref", "=", "applovin.com">>,
               PixelV1,
               GraphqlUrl}}
    \cup {MkRequest(u, "POST", StorefrontHeader, Body("text"), Val(PreparedUrl)) :
            u \in {GraphqlUrl, <<"https://", "shop.test", "/", "api">>}}

Requests == PixelRequests \cup OtherRequests

\* the inputs of a whole session: a few of each kind
SessionPages ==
    {ContentPage(Text(<<"cdn.", "my", "shopify", ".com">>)),
     ContentPage(Text(<<"GTM.start", "axon", "analytics.js">>)),
     ContentPage(NoText),
     ElementPage(<<"gtag">>, Elems(<<ScriptHydrogen, ScriptInline>>), Elems(<<>>))}

SessionShopifyChecks ==
    {<<ContentPage(Text(<<>>)), Response(<<"nginx">>)>>,
     <<ContentPage(Text(<<>>)), Response(<<"Shopify">>)>>,
     <<MkPage(ShopUrl, NoText, Elems(<<>>), Elems(<<>>), "found", "none"), NoResponse>>}

SessionRequests ==
    {Pixel(PixelV2, JsonBody(PayloadLand), Val(PreparedUrl)),
     Pixel(PixelV1, JsonBody(PayloadAxon), Val(PreparedUrl)),
     Pixel(PixelV2, Body("text"), Val(PreparedUrl)),
     MkRequest(<<"https://", "cdn.", "axon.ai", "/", "sdk.js">>, "GET", <<>>, Body("none"),
               Val(PreparedUrl)),
     MkRequest(<<"https://", "c.", "ALBSS.COM", "/">>, "GET", <<>>, Body("none"),
               Val(PreparedUrl)),
     MkRequest(GraphqlUrl, "POST", StorefrontHeader, Body("text"), Val(PreparedUrl))}

-----------------------------------------------------------------------------
(* One SiteAnalyzer object driven by a sequence of calls *)

Fresh(self) == self = reset_flags(self)

\* a call of a SiteAnalyzer method with outcome r
Call(name, r, n) ==
    /\ analyzer' = r.self
    /\ last' = [call |-> name, exc |-> r.exc, log |-> r.log, fresh |-> Fresh(analyzer)]
    /\ observed' = n
    /\ UNCHANGED <<tester, arg, called, ret>>

ResetFlags == Call("reset_flags", Ok(reset_flags(analyzer)), 0)

CheckPageContent(pages) ==
    \E page \in pages :
        Call("check_page_content", check_page_content(analyzer, page), observed)

CheckShopifyIndicators(checks) ==
    \E c \in checks :
        Call("check_shopify_indicators", check_shopify_indicators(analyzer, c[1], c[2]),
             observed)

CheckRequest(requests) ==
    /\ observed < MaxRequests
    /\ \E request \in requests :
          Call("check_request", check_request(analyzer, request), observed + 1)

\* the warnings handed to get_results
ResultWarnings == {"", "Network idle timeout"}

\* get_results("shop", ShopUrl, warning); arg and ret keep the arguments and
\* the returned verdict
GetResults ==
    \E warning \in ResultWarnings :
        LET r == call_get_results(analyzer, "shop", ShopUrl, warning) IN
        /\ analyzer' = r.self
        /\ last' = [call |-> "get_results", exc |-> r.exc, log |-> r.log,
                    fresh |-> Fresh(analyzer)]
        /\ arg' = <<"shop", ShopUrl, warning>>
        /\ ret' = r.value
        /\ UNCHANGED <<observed, tester, called>>

\* the URLs of the requests a page issues while it loads
PendingUrls ==
    {PixelV1, PixelV2,
     <<"https://", "cdn.", "axon.ai", "/", "sdk.js">>,
     <<"https://", "c.", "ALBSS.COM", "/">>,
     <<"https://", "unrelated.test", "/">>}

\* load_page: the URLs of pending_requests that hold a domain of interest
important_pending(self) ==
    {url \in self.pending_requests :
        \E i \in 1..Len(DOMAINS_OF_INTEREST) :
            Contains(Lower(url), DOMAINS_OF_INTEREST[i].domain)}

\* BrowserManager._handle_request(request), self the BrowserManager
_handle_request(self, url) ==
    [self EXCEPT !.pending_requests = @ \cup {url}]

\* BrowserManager._handle_request_failed(request); request.failure is the
\* error text
_handle_request_failed(self, url) ==
    LET s1 == [self EXCEPT !.pending_requests = @ \ {url}]
        d == is_domain_of_interest(url)
        is_interesting == d[1]
        is_critical == d[2]
        any_critical == \E i \in 1..Len(DOMAINS_OF_INTEREST) :
                            /\ DOMAINS_OF_INTEREST[i].critical
                            /\ Contains(Lower(url), DOMAINS_OF_INTEREST[i].domain)
    IN IF ~is_interesting THEN s1
       ELSE IF ~is_critical /\ ~any_critical THEN s1
       ELSE [s1 EXCEPT !.failed_requests = Append(@, [url |-> url, error |-> "failure"])]

\* BrowserManager._handle_request_finished(request)
_handle_request_finished(self, url) ==
    [self EXCEPT !.pending_requests = @ \ {url}]

\* SiteTester(config) before run_tests
NewTester(config, file) ==
    [config |-> config, sites_file |-> file, pc |-> "run_tests", k |-> 0,
     url |-> <<>>, start |-> NewAnalyzer, page |-> ContentPage(Text(<<>>)), warning |-> "",
     response |-> NoResponse, failed_requests |-> <<>>, timed_out |-> FALSE, late |-> FALSE,
     log |-> {},
     results |-> <<>>, browser |-> "none", written |-> FALSE, error |-> "none",
     browser_manager |-> [pending_requests |-> {}, failed_requests |-> <<>>,
                          pc |-> "new", warning |-> "", pending_count |-> 0],
     in_flight |-> [url \in PendingUrls |-> 0]]

DefaultConfig ==
    [static_analysis_only |-> FALSE, intercept_requests |-> TRUE, wait_time_ok |-> TRUE]

NoFile == [exists |-> FALSE, valid |-> FALSE, sites |-> <<>>]

Init ==
    /\ analyzer = NewAnalyzer
    /\ last = [call |-> "__init__", exc |-> "none", log |-> {}, fresh |-> TRUE]
    /\ observed = 0
    /\ tester = NewTester(DefaultConfig, NoFile)
    /\ arg = <<>>
    /\ called = ""
    /\ ret = <<>>

\* any sequence of calls
Next ==
    \/ ResetFlags
    \/ CheckPageContent(SessionPages)
    \/ CheckShopifyIndicators(SessionShopifyChecks)
    \/ CheckRequest(SessionRequests)

Spec == Init /\ [][Next]_vars

\* the request stream alone
NextRequests ==
    \/ ResetFlags
    \/ CheckRequest(Requests)

SpecRequests == Init /\ [][NextRequests]_vars

\* the content checks alone
NextContent ==
    \/ ResetFlags
    \/ CheckPageContent(ContentPages)
    \/ CheckShopifyIndicators(ShopifyChecks)

SpecContent == Init /\ [][NextContent]_vars

\* any sequence of calls, with the verdict read at any point
ResultsPages == {ContentPage(Text(<<"GTM.start", "axon", "analytics.js">>))}

ResultsShopifyChecks == {<<ContentPage(Text(<<>>)), Response(<<"Shopify">>)>>}

ResultsRequests ==
    {Pixel(PixelV2, JsonBody(PayloadLand), Val(PreparedUrl)),
     MkRequest(GraphqlUrl, "POST", StorefrontHeader, Body("text"), Val(PreparedUrl))}

NextResults ==
    \/ ResetFlags
    \/ CheckPageContent(ResultsPages)
    \/ CheckShopifyIndicators(ResultsShopifyChecks)
    \/ CheckRequest(ResultsRequests)
    \/ GetResults

SpecResults == Init /\ [][NextResults]_vars

-----------------------------------------------------------------------------
(* src/src/testers/site_tester.py: run_tests over a sites file *)

\* entries of the sites list
GoodSite == [mapping |-> TRUE, keys |-> {"name", "url"}, name |-> "shop", url |-> ShopUrl]
BracketSite ==
    [mapping |-> TRUE, keys |-> {"name", "url"}, name |-> "bracket",
     url |-> <<"https://", "[", "/", "?", "utm_source", "=", "AppLovin">>]
NoUrlSite == [mapping |-> TRUE, keys |-> {"name"}, name |-> "nourl", url |-> <<>>]
ListSite == [mapping |-> FALSE, keys |-> {}, name |-> "", url |-> <<>>]
SiteEntries == {GoodSite, BracketSite, NoUrlSite, ListSite}

\* line 71: isinstance(site, dict) and 'name' in site and 'url' in site
WellFormed(site) == site.mapping /\ {"name", "url"} \subseteq site.keys

SitesFiles ==
    {NoFile, [exists |-> TRUE, valid |-> FALSE, sites |-> <<>>]}
    \cup {[exists |-> TRUE, valid |-> TRUE, sites |-> ss] : ss \in SeqsUpTo(SiteEntries, MaxSites)}

Configs == [static_analysis_only : BOOLEAN, intercept_requests : BOOLEAN,
            wait_time_ok : BOOLEAN]

\* what load_page returns and the page it leaves in the browser
Loaded(warning, response, failed, page) ==
    [warning |-> warning, response |-> response, failed_requests |-> failed, page |-> page]

\* what the browser does with a page load: page.goto and the wait for network
\* idle return ("ok") or time out; pending is pending_requests at the time
\* the wait ends
Load(goto, idle, pending, response, failed, page) ==
    [goto |-> goto, idle |-> idle, pending |-> pending, response |-> response,
     failed_requests |-> failed, page |-> page]

\* load_page(url) under the browser behaviour l
load_page(l) ==
    IF l.goto = "timeout"
    THEN Loaded("Page load timeout", NoResponse, l.failed_requests, l.page)
    ELSE LET pending == important_pending([pending_requests |-> l.pending])
         IN IF l.idle = "timeout" /\ pending /= {}
            THEN Loaded("Network idle timeout", l.response, l.failed_requests, l.page)
            ELSE Loaded("", l.response, l.failed_requests, l.page)

BatchLoads ==
    {Load("ok", "timeout", {PixelV2}, Response(<<"Shopify">>), <<"https://b.applovin.com/pixel">>,
          MkPage(ShopUrl, NoText, NoElems, NoElems, "raises", "none")),
     Load("timeout", "ok", {}, NoResponse, <<>>,
          ElementPage(<<"axon">>, NoElems, Elems(<<MetaTokens>>)))}

\* page loads that finish, time out on goto, or time out waiting for network
\* idle with important, other or no requests pending
PageLoads ==
    BatchLoads
    \cup {Load("ok", idle, pending, Response(<<"nginx">>), <<>>, ContentPage(Text(<<"gtag">>))) :
            idle \in {"ok", "timeout"},
            pending \in {{}, {<<"https://", "unrelated.test", "/">>}}}

\* the requests delivered to the handler run_tests registers
BatchRequests ==
    {Pixel(PixelV2, JsonBody(PayloadLand), Val(PreparedUrl)),
     MkRequest(GraphqlUrl, "POST", StorefrontHeader, Body("text"), Val(PreparedUrl))}

Dynamic == ~tester.config.static_analysis_only

\* the finally clause of run_tests
close_browser(t) == IF t.config.static_analysis_only THEN t ELSE [t EXCEPT !.browser = "closed"]

\* an exception leaving run_tests
Propagate(t, e) == [close_browser(t) EXCEPT !.pc = "raised", !.error = e]

\* run_tests up to the loop: the file check, the browser, the handler, the file
RunTests ==
    /\ tester.pc = "run_tests"
    /\ tester' =
        IF ~tester.sites_file.exists
        THEN [tester EXCEPT !.pc = "raised", !.error = "FileNotFoundError"]
        ELSE LET t == IF tester.config.static_analysis_only THEN tester
                      ELSE [tester EXCEPT !.browser = "open"]
             IN IF ~tester.sites_file.valid THEN Propagate(t, "ValueError")
                ELSE [t EXCEPT !.pc = "site", !.k = 1]
    /\ UNCHANGED <<analyzer, last, observed, arg, called, ret>>

\* lines 93-96: the verdict, with the failed requests if there are any
\* (no "failed_requests" key is the empty list here)
Verdict(results, failed_requests) ==
    [key \in DOMAIN results \cup {"failed_requests"} |->
        IF key = "failed_requests" THEN failed_requests ELSE results[key]]

\* results.append(...) and the next round of the loop
Appended(t, result) == [t EXCEPT !.results = Append(@, result), !.pc = "site", !.k = @ + 1]

\* an except clause that lets the exception go on
site_error_propagates(t, site, e) == Propagate(t, e)

\* str(e) of an exception caught by analyze_single_site: urlparse raises the
\* ValueError of static mode, time.sleep the one of dynamic mode
str(t, e) ==
    IF e /= "ValueError" THEN "error"
    ELSE IF t.config.static_analysis_only THEN "Invalid IPv6 URL"
    ELSE "sleep length must be non-negative"

\* the except clause of analyze_single_site: the error result
site_error(t, site, e) ==
    Appended(t, [site |-> site.name, url |-> t.url, error |-> str(t, e), error_type |-> e,
                 failed_requests |-> t.failed_requests])

\* a step inside the try block of analyze_single_site: outcome r of a call,
\* then either the except clause or the rest of the block
Try(name, r, n, t) ==
    /\ analyzer' = r.self
    /\ last' = [call |-> name, exc |-> r.exc, log |-> r.log, fresh |-> Fresh(analyzer)]
    /\ observed' = n
    /\ tester' = IF r.exc /= "none"
                 THEN site_error([tester EXCEPT !.log = @ \cup r.log], tester.sites_file.sites[tester.k], r.exc)
                 ELSE [t EXCEPT !.log = @ \cup r.log]
    /\ UNCHANGED <<arg, called, ret>>

\* analyze_single_site up to the page load (dynamic) or to its end (static)
AnalyzeSingleSite ==
    /\ tester.pc = "site"
    /\ tester.k <= Len(tester.sites_file.sites)
    /\ LET site == tester.sites_file.sites[tester.k] IN
       IF ~WellFormed(site)
       THEN /\ tester' = Propagate(tester, "ValueError")
            /\ UNCHANGED <<analyzer, last, observed, arg, called, ret>>
       ELSE LET s0 == reset_flags(analyzer)
                url == prepare_url(site.url)
                t == [tester EXCEPT !.url = url, !.start = s0, !.log = {}]
            IN IF tester.config.static_analysis_only
               THEN LET r == analyze_static(s0, site.name, url) IN
                    /\ analyzer' = r.self
                    /\ last' = [call |-> "analyze_static", exc |-> r.exc, log |-> r.log,
                                fresh |-> Fresh(analyzer)]
                    /\ observed' = 0
                    /\ tester' = IF r.exc /= "none" THEN site_error(t, site, r.exc)
                                 ELSE Appended(t, r.result)
                    /\ UNCHANGED <<arg, called, ret>>
               ELSE /\ analyzer' = s0
                    /\ last' = [call |-> "reset_flags", exc |-> "none", log |-> {},
                                fresh |-> Fresh(analyzer)]
                    /\ observed' = 0
                    /\ tester' = [t EXCEPT !.pc = "load_page"]
                    /\ UNCHANGED <<arg, called, ret>>

\* line 83: load_page(url) returns; timed_out notes whether goto or the wait
\* for network idle timed out
LoadPage(loads) ==
    /\ tester.pc = "load_page"
    /\ \E l \in loads :
          LET r == load_page(l) IN
          tester' = [tester EXCEPT !.warning = r.warning, !.response = r.response,
                                   !.failed_requests = r.failed_requests,
                                   !.page = r.page,
                                   !.timed_out = (l.goto = "timeout" \/ l.idle = "timeout"),
                                   !.pc = "check_page_content"]
    /\ UNCHANGED <<analyzer, last, observed, arg, called, ret>>

\* line 86
CheckContentOfSite ==
    /\ tester.pc = "check_page_content"
    /\ Try("check_page_content", check_page_content(analyzer, tester.page), observed,
           [tester EXCEPT !.pc = "check_shopify_indicators"])

\* line 87
CheckShopifyOfSite ==
    /\ tester.pc = "check_shopify_indicators"
    /\ Try("check_shopify_indicators",
           check_shopify_indicators(analyzer, tester.page, tester.response), observed,
           [tester EXCEPT !.pc = "sleep"])

\* lines 89-100: the settle wait, then the verdict.  time.sleep raises
\* ValueError on a negative wait_time.
Settle ==
    /\ tester.pc = "sleep"
    /\ LET site == tester.sites_file.sites[tester.k] IN
       tester' =
          IF tester.config.intercept_requests /\ ~tester.config.wait_time_ok
          THEN site_error(tester, site, "ValueError")
          ELSE Appended(tester, Verdict(get_results(analyzer, site.name, tester.url,
                                                    tester.warning), tester.failed_requests))
    /\ UNCHANGED <<analyzer, last, observed, arg, called, ret>>

\* a handler that run_tests registers whether or not requests are intercepted
DeliverRequest_always_registered ==
    /\ Dynamic
    /\ tester.pc \in {"load_page", "check_page_content", "check_shopify_indicators", "sleep"}
    /\ observed < MaxDeliveries
    /\ \E request \in BatchRequests :
          LET r == check_request(analyzer, request) IN
          /\ analyzer' = r.self
          /\ last' = [call |-> "check_request", exc |-> r.exc, log |-> r.log,
                      fresh |-> Fresh(analyzer)]
          /\ observed' = observed + 1
          /\ tester' = [tester EXCEPT !.log = @ \cup r.log]
          /\ UNCHANGED <<arg, called, ret>>

\* a request event reaches the handler registered at line 128, while the page
\* loads, is checked or settles
DeliverRequest ==
    /\ Dynamic /\ tester.config.intercept_requests
    /\ tester.pc \in {"load_page", "check_page_content", "check_shopify_indicators", "sleep"}
    /\ observed < MaxDeliveries
    /\ \E request \in BatchRequests :
          LET r == check_request(analyzer, request) IN
          /\ analyzer' = r.self
          /\ last' = [call |-> "check_request", exc |-> r.exc, log |-> r.log,
                      fresh |-> Fresh(analyzer)]
          /\ observed' = observed + 1
          /\ tester' = [tester EXCEPT !.log = @ \cup r.log]
          /\ UNCHANGED <<arg, called, ret>>

\* a request event that the page of an earlier site emitted after that site's
\* verdict (line 93) reaches the handler while page.goto of the next site runs:
\* line 128 registers the handler once, on the one page every site is loaded
\* in, and nothing removes it between sites.  late notes that this happened.
DeliverLateRequest ==
    /\ Dynamic /\ tester.config.intercept_requests
    /\ tester.pc = "load_page"
    /\ tester.k > 1
    /\ "error" \notin DOMAIN tester.results[Len(tester.results)]
    /\ observed < MaxDeliveries
    /\ \E request \in BatchRequests :
          LET r == check_request(analyzer, request) IN
          /\ analyzer' = r.self
          /\ last' = [call |-> "check_request", exc |-> r.exc, log |-> r.log,
                      fresh |-> Fresh(analyzer)]
          /\ observed' = observed + 1
          /\ tester' = [tester EXCEPT !.log = @ \cup r.log, !.late = TRUE]
          /\ UNCHANGED <<arg, called, ret>>

\* the end of the loop: the finally clause, then the output file
WriteResults ==
    /\ tester.pc = "site"
    /\ tester.k > Len(tester.sites_file.sites)
    /\ tester' = [close_browser(tester) EXCEPT !.pc = "done", !.written = TRUE]
    /\ UNCHANGED <<analyzer, last, observed, arg, called, ret>>

InitBatch ==
    /\ analyzer = NewAnalyzer
    /\ last = [call |-> "__init__", exc |-> "none", log |-> {}, fresh |-> TRUE]
    /\ observed = 0
    /\ \E config \in Configs, file \in SitesFiles : tester = NewTester(config, file)
    /\ arg = <<>>
    /\ called = ""
    /\ ret = <<>>

NextBatch ==
    \/ RunTests
    \/ AnalyzeSingleSite
    \/ LoadPage(BatchLoads)
    \/ CheckContentOfSite
    \/ CheckShopifyOfSite
    \/ Settle
    \/ DeliverRequest
    \/ WriteResults

SpecBatch == InitBatch /\ [][NextBatch]_vars

\* run_tests in dynamic mode over sites that are all well-formed, with every
\* kind of page load
LoadConfigs == {c \in Configs : ~c.static_analysis_only /\ c.wait_time_ok}

LoadFiles ==
    {[exists |-> TRUE, valid |-> TRUE, sites |-> ss] : ss \in SeqsUpTo({GoodSite}, MaxSites)}

InitLoad ==
    /\ analyzer = NewAnalyzer
    /\ last = [call |-> "__init__", exc |-> "none", log |-> {}, fresh |-> TRUE]
    /\ observed = 0
    /\ \E config \in LoadConfigs, file \in LoadFiles : tester = NewTester(config, file)
    /\ arg = <<>>
    /\ called = ""
    /\ ret = <<>>

NextLoad ==
    \/ RunTests
    \/ AnalyzeSingleSite
    \/ LoadPage(PageLoads)
    \/ CheckContentOfSite
    \/ CheckShopifyOfSite
    \/ Settle
    \/ DeliverRequest
    \/ WriteResults

SpecLoad == InitLoad /\ [][NextLoad]_vars

\* run_tests in dynamic mode, with requests of an earlier site arriving late
NextLate ==
    \/ RunTests
    \/ AnalyzeSingleSite
    \/ LoadPage(BatchLoads)
    \/ CheckContentOfSite
    \/ CheckShopifyOfSite
    \/ Settle
    \/ DeliverRequest
    \/ DeliverLateRequest
    \/ WriteResults

SpecLate == InitLoad /\ [][NextLate]_vars

-----------------------------------------------------------------------------
(* src/src/browser/browser_manager.py: the notifications of one page load,
   from pending_requests.clear() on.  in_flight[url] counts the requests to
   url that were issued and have neither finished nor failed. *)

\* load_page(url) up to page.goto: both collections are emptied
LoadPageStart ==
    /\ tester.browser_manager.pc = "new"
    /\ tester' = [tester EXCEPT
                     !.browser_manager.failed_requests = <<>>,
                     !.browser_manager.pending_requests = {},
                     !.browser_manager.pc = "loading"]
    /\ UNCHANGED <<analyzer, last, observed, arg, called, ret>>

\* page.goto raises: the outer except clause
PageLoadTimeout ==
    /\ tester.browser_manager.pc = "loading"
    /\ tester' = [tester EXCEPT
                     !.browser_manager.warning = "Page load timeout",
                     !.browser_manager.pc = "returned"]
    /\ UNCHANGED <<analyzer, last, observed, arg, called, ret>>

\* wait_for_load_state('networkidle') returns: no request is in flight
NetworkIdle ==
    /\ tester.browser_manager.pc = "loading"
    /\ \A url \in PendingUrls : tester.in_flight[url] = 0
    /\ tester' = [tester EXCEPT !.browser_manager.pc = "returned"]
    /\ UNCHANGED <<analyzer, last, observed, arg, called, ret>>

\* wait_for_load_state('networkidle') raises: the inner except clause
NetworkIdleTimeout ==
    /\ tester.browser_manager.pc = "loading"
    /\ LET pending == important_pending(tester.browser_manager) IN
          tester' = [tester EXCEPT
                        !.browser_manager.warning =
                            IF pending /= {} THEN "Network idle timeout" ELSE @,
                        !.browser_manager.pending_count = Cardinality(pending),
                        !.browser_manager.pc = "returned"]
    /\ UNCHANGED <<analyzer, last, observed, arg, called, ret>>

\* the page issues a request: the "request" notification
HandleRequest ==
    /\ tester.browser_manager.pc = "loading"
    /\ observed < MaxRequests
    /\ \E url \in PendingUrls :
          tester' = [tester EXCEPT
                        !.browser_manager = _handle_request(@, url),
                        !.in_flight[url] = @ + 1]
    /\ observed' = observed + 1
    /\ UNCHANGED <<analyzer, last, arg, called, ret>>

\* a request in flight fails: the "requestfailed" notification
HandleRequestFailed ==
    /\ tester.browser_manager.pc = "loading"
    /\ \E url \in PendingUrls :
          /\ tester.in_flight[url] > 0
          /\ tester' = [tester EXCEPT
                           !.browser_manager = _handle_request_failed(@, url),
                           !.in_flight[url] = @ - 1]
    /\ UNCHANGED <<analyzer, last, observed, arg, called, ret>>

\* a request in flight finishes: the "requestfinished" notification
HandleRequestFinished ==
    /\ tester.browser_manager.pc = "loading"
    /\ \E url \in PendingUrls :
          /\ tester.in_flight[url] > 0
          /\ tester' = [tester EXCEPT
                           !.browser_manager = _handle_request_finished(@, url),
                           !.in_flight[url] = @ - 1]
    /\ UNCHANGED <<analyzer, last, observed, arg, called, ret>>

NextPending ==
    \/ LoadPageStart
    \/ PageLoadTimeout
    \/ NetworkIdle
    \/ NetworkIdleTimeout
    \/ HandleRequest
    \/ HandleRequestFailed
    \/ HandleRequestFinished

SpecPending == Init /\ [][NextPending]_vars

-----------------------------------------------------------------------------
(* The URL functions applied to every short URL *)

\* URLs made of a host and query punctuation, names and values
QueryTokens == {"?", "&", "#", "=", "aleid", "alart", "v", "my"}
QueryUrls == {<<"https://", "shop.test", "/">> \o q : q \in SeqsUpTo(QueryTokens, MaxUrlLen)}

\* URLs made of registry domains, in either case, and other text
DomainTokens == {"applovin.com", "axon.ai", "albss.com", "APPLOVIN.COM", "x.test/"}
DomainUrls == SeqsUpTo(DomainTokens, MaxUrlLen)

Urls == QueryUrls \cup DomainUrls

InitUrl ==
    /\ analyzer = NewAnalyzer
    /\ last = [call |-> "__init__", exc |-> "none", log |-> {}, fresh |-> TRUE]
    /\ observed = 0
    /\ tester = NewTester(DefaultConfig, NoFile)
    /\ arg \in Urls
    /\ called = ""
    /\ ret = <<>>

Apply(name, value) ==
    /\ called = ""
    /\ called' = name
    /\ ret' = value
    /\ UNCHANGED <<analyzer, last, observed, tester, arg>>

CallIsDomainOfInterest == Apply("is_domain_of_interest", is_domain_of_interest(arg))

CallPrepareUrl == Apply("prepare_url", prepare_url(arg))

CallParseUrlParameters == Apply("parse_url_parameters", parse_url_parameters(arg))

NextUrl ==
    \/ CallIsDomainOfInterest
    \/ CallPrepareUrl
    \/ CallParseUrlParameters

SpecUrl == InitUrl /\ [][NextUrl]_vars

-----------------------------------------------------------------------------
(* analyze_static applied to every short URL with tracking parameters *)

StaticTokens == {"?", "&", "=", "utm_source", "utm_medium", "utm_campaign",
                 "applovin", "AppLovin", "x"}
StaticUrls == {<<"https://", "shop.test", "/">> \o q : q \in SeqsUpTo(StaticTokens, MaxUrlLen)}

InitStatic ==
    /\ analyzer = NewAnalyzer
    /\ last = [call |-> "__init__", exc |-> "none", log |-> {}, fresh |-> TRUE]
    /\ observed = 0
    /\ tester = NewTester(DefaultConfig, NoFile)
    /\ arg \in StaticUrls
    /\ called = ""
    /\ ret = <<>>

CallAnalyzeStatic ==
    /\ called = ""
    /\ LET r == analyze_static(analyzer, "site", arg) IN
       /\ analyzer' = r.self
       /\ last' = [call |-> "analyze_static", exc |-> r.exc, log |-> r.log,
                   fresh |-> Fresh(analyzer)]
       /\ called' = "analyze_static"
       /\ ret' = r
    /\ UNCHANGED <<observed, tester, arg>>

NextStatic == CallAnalyzeStatic

SpecStatic == InitStatic /\ [][NextStatic]_vars

-----------------------------------------------------------------------------
(* The parsers applied to payloads and page URLs with keys left out *)

\* the objects with each of the keys name, applovin, axon and event left out
\* or present
ParsePayloads ==
    {n \cup a \cup x \cup e :
        n \in {{}, {<<"name", "land">>}},
        a \in {{}} \cup {{<<"applovin", v>>} : v \in {{}, VendorMatch, {<<"art", Art1234>>}}},
        x \in {{}} \cup {{<<"axon", v>>} : v \in {VendorOther, {<<"eventId", <<"E9">>>>}}},
        e \in {{}} \cup {{<<"event", v>>} : v \in {{}, {<<"name", "page_view">>}}}}

ParseUrls ==
    {ShopUrl, PreparedUrl,
     ShopUrl \o <<"?", "alart", "=", "A1">>,
     ShopUrl \o <<"?", "aleid", "=", "E9">>}

InitParse ==
    /\ analyzer = NewAnalyzer
    /\ last = [call |-> "__init__", exc |-> "none", log |-> {}, fresh |-> TRUE]
    /\ observed = 0
    /\ tester = NewTester(DefaultConfig, NoFile)
    /\ arg \in [payload : ParsePayloads, url : ParseUrls]
    /\ called = ""
    /\ ret = <<>>

ParseV1 == Apply("parse_v1_request", parse_v1_request(arg.payload))

ParseV2 == Apply("parse_v2_request", parse_v2_request(arg.payload))

ParseUrl == Apply("parse_url_parameters", parse_url_parameters(arg.url))

NextParse ==
    \/ ParseV1
    \/ ParseV2
    \/ ParseUrl

SpecParse == InitParse /\ [][NextParse]_vars

-----------------------------------------------------------------------------
(* Properties *)

\* the indicator, event, match and headless flags that are true
TrueFlags(self) ==
    {<<g, f>> : g \in {"content_indicators", "events", "parameter_matches",
                       "headless_indicators"},
                f \in {"shopify", "headless_shopify", "axon", "gtm", "ga", "ga4",
                       "land", "page_view", "page_viewed", "aleid", "alart",
                       "api_calls", "storefront_api", "hydrogen", "buy_sdk"}}
    \cap {<<g, f>> \in UNION {{<<g, f>> : f \in DOMAIN self[g]} :
                                g \in {"content_indicators", "events", "parameter_matches",
                                       "headless_indicators"}} : self[g][f]}

\* C1: within one session (no reset_flags in between), a boolean of
\* content_indicators, events, parameter_matches or headless_indicators that is
\* true stays true under every call.
C1_FlagsWriteOnceTrue ==
    [][last'.call /= "reset_flags" => TrueFlags(analyzer) \subseteq TrueFlags(analyzer')]_vars

\* the flags of events, parameter_matches and headless_indicators, and
\* content_indicators.headless_shopify, that are true
StickyFlags(self) ==
    {<<g, f>> \in TrueFlags(self) : g = "content_indicators" => f = "headless_shopify"}

\* the number of records a call adds to list k of network_requests
Added(before, after, k) == Len(after.network_requests[k]) - Len(before.network_requests[k])

\* C23: for every observed request, check_request appends a record to at most
\* one of the lists applovin, axon_ai and albss, whatever the URL contains.
C23_AtMostOneDomainList ==
    [][last'.call = "check_request" =>
          Added(analyzer, analyzer', "applovin") + Added(analyzer, analyzer', "axon_ai")
              + Added(analyzer, analyzer', "albss") <= 1]_vars

\* C24: an observed request contributes one record to the shopify_api list
\* at most (exactly one when it matches an endpoint or a header), so that
\* api_calls_count counts the matching requests.
C24_OneApiRecordPerRequest ==
    [][last'.call = "check_request" => Added(analyzer, analyzer', "shopify_api") <= 1]_vars

\* a page whose script and meta elements are one element in all
OneElement(page) ==
    /\ ~page.scripts.raises /\ ~page.metas.raises
    /\ Len(page.scripts.elems) + Len(page.metas.elems) = 1

\* C25: a single page element never flips headless_shopify: checking a page
\* with one script element and no meta element, or one meta element and no
\* script element, leaves headless_shopify false.
C25_OneElementNeverHeadless ==
    \A page \in ContentPages :
        (OneElement(page) /\ ~analyzer.content_indicators.headless_shopify) =>
            ~check_page_content(analyzer, page).self.content_indicators.headless_shopify

\* a page whose content, script list and src attributes can all be read
ScriptsReadable(page) ==
    /\ ~page.content.raises /\ ~page.scripts.raises
    /\ \A i \in 1..Len(page.scripts.elems) : ~page.scripts.elems[i].src.raises

\* the pattern is seen in a script of the page: in its src attribute or in its
\* inline text
SeenInScript(page, pattern) ==
    \E i \in 1..Len(page.scripts.elems) :
        LET script == page.scripts.elems[i] IN
        \/ Contains(script.src.value, pattern)
        \/ ~script.text.raises /\ Contains(Lower(script.text.value), Lower(pattern))

\* C26: hydrogen, storefront_api and buy_sdk are set without threshold, each
\* exactly when its own pattern is seen in a script of the checked page (src
\* attribute or inline text), independently of one another.
C26_SubFlagsFollowOwnPattern ==
    \A page \in ContentPages :
        ScriptsReadable(page) =>
            LET before == analyzer.headless_indicators
                after == check_page_content(analyzer, page).self.headless_indicators
            IN /\ after.hydrogen =
                     (before.hydrogen \/ SeenInScript(page, <<"@shopify/hydrogen">>))
               /\ after.storefront_api =
                     (before.storefront_api \/ SeenInScript(page, <<"@shopify/storefront-api">>))
               /\ after.buy_sdk = (before.buy_sdk \/ SeenInScript(page, <<"shopify-buy">>))

\* the page without the script and meta elements whose attributes cannot be
\* read
WithoutUnreadable(page) ==
    [page EXCEPT
        !.scripts.elems = SelectSeq(@, LAMBDA script : ~script.src.raises),
        !.metas.elems = SelectSeq(@, LAMBDA meta : ~meta.name.raises /\ ~meta.content.raises)]

\* C27: an exception raised while reading the attributes of one script or
\* meta element skips only that element: the session ends as if the page had
\* been checked without it, the threshold evaluated on the other elements.
C27_UnreadableElementIsSkipped ==
    \A page \in ContentPages :
        (~page.content.raises /\ ~page.scripts.raises /\ ~page.metas.raises) =>
            check_page_content(analyzer, page).self
                = check_page_content(analyzer, WithoutUnreadable(page)).self

\* the server header names Shopify / the page URL is a myshopify.com URL /
\* a DOM query or the content of the page raises when consulted
ServerSignal(response) == response.present /\ Contains(Lower(response.server), <<"shopify">>)
UrlSignal(page) == Contains(page.url, <<"my", "shopify", ".com">>)
DomRaises(page) ==
    page.link_shopify = "raises" \/ page.script_shopify = "raises" \/ page.content.raises

\* C28: check_shopify_indicators takes its signals in a fixed order and stops
\* at the first: with a Shopify server header shopify is set and neither URL
\* nor DOM is consulted (a DOM that would raise is not touched); otherwise
\* with a myshopify.com URL shopify is set and the DOM is not consulted; only
\* otherwise is the DOM consulted, and shopify is what the link tag, the
\* script tag and the Shopify.shop content give.
C28_ShopifySignalsInOrder ==
    \A c \in ShopifyChecks :
        LET page == c[1]
            response == c[2]
            r == check_shopify_indicators(analyzer, page, response)
        IN IF ServerSignal(response) \/ UrlSignal(page)
           THEN r.self.content_indicators.shopify /\ r.log = {}
           ELSE IF DomRaises(page)
           THEN r.log = {"warning: shopify indicators"} /\ r.self = analyzer
           ELSE /\ r.log = {}
                /\ r.self.content_indicators.shopify =
                      (\/ page.link_shopify = "found"
                       \/ page.script_shopify = "found"
                       \/ Contains(page.content.text, <<"Shopify", ".shop">>))

\* shopify has been set, without a warning, by a check whose DOM would have
\* raised: one with a Shopify server header and one with a myshopify.com URL
\* are among the checks
C28_Witness ==
    /\ last.call = "check_shopify_indicators"
    /\ last.log = {}
    /\ analyzer.content_indicators.shopify
    /\ last.fresh
    /\ \E c \in ShopifyChecks : ServerSignal(c[2]) /\ DomRaises(c[1])
    /\ \E c \in ShopifyChecks : ~ServerSignal(c[2]) /\ UrlSignal(c[1]) /\ DomRaises(c[1])

\* C29: in a session driven through check_request, check_page_content and
\* check_shopify_indicators, the tracking list is never longer than the
\* applovin list, and a true flag in events or parameter_matches implies that
\* the tracking list is not empty.
C29_TrackingBoundedByApplovin ==
    /\ Len(analyzer.network_requests.tracking) <= Len(analyzer.network_requests.applovin)
    /\ (\/ \E e \in DOMAIN analyzer.events : analyzer.events[e]
        \/ \E m \in DOMAIN analyzer.parameter_matches : analyzer.parameter_matches[m])
          => analyzer.network_requests.tracking /= <<>>

\* one pixel request was parsed and one was not: an event flag and a match
\* flag are true, with one summary for two applovin records
C29_Witness ==
    /\ last.call = "check_request"
    /\ analyzer.events.page_view
    /\ analyzer.parameter_matches.alart
    /\ Len(analyzer.network_requests.tracking) = 1
    /\ Len(analyzer.network_requests.applovin) = 2

\* C30: in every session state headless_indicators.api_calls is true iff the
\* shopify_api list is not empty, so the verdict has has_api_calls = true
\* exactly when api_calls_count > 0.
C30_ApiCallsIffApiRecords ==
    /\ analyzer.headless_indicators.api_calls = (analyzer.network_requests.shopify_api /= <<>>)
    /\ LET details == get_results(analyzer, "shop", ShopUrl, "").headless_shopify_details
       IN details.has_api_calls = (details.api_calls_count > 0)

\* a request that matches an endpoint and no header has been recorded
C30_Witness ==
    /\ last.call = "check_request"
    /\ analyzer.headless_indicators.api_calls
    /\ Len(analyzer.network_requests.shopify_api) = 1
    /\ analyzer.network_requests.shopify_api[1].method = "GET"
    /\ ~analyzer.content_indicators.headless_shopify

\* C32: during a page load pending_requests is exactly the set of the URLs
\* with a request in flight, whatever the order of the notifications and also
\* with several requests to one URL in flight; so the requests to domains of
\* interest counted in the network-idle warning are never under-reported.
C32_PendingIsInFlight ==
    LET in_flight == {url \in PendingUrls : tester.in_flight[url] > 0}
        of_interest == {url \in in_flight : is_domain_of_interest(url)[1]}
    IN /\ tester.browser_manager.pending_requests = in_flight
       /\ tester.browser_manager.warning = "Network idle timeout" =>
             tester.browser_manager.pending_count >= Cardinality(of_interest)
       /\ (tester.browser_manager.pc = "returned" /\ of_interest /= {}) =>
             tester.browser_manager.warning /= ""

\* C22: a request of site A that reaches the handler only after A's verdict,
\* during the next site's page load, is not observed: it changes neither the
\* verdicts assembled so far nor the session state of the next site.
C22_LateRequestNotObserved ==
    [][(~tester.late /\ tester'.late) =>
          /\ tester'.results = tester.results
          /\ analyzer' = analyzer]_vars

\* C21: within one session, no call of check_request, check_page_content or
\* check_shopify_indicators turns a flag of events, parameter_matches or
\* headless_indicators, or content_indicators.headless_shopify, from true to
\* false.
C21_StickyFlagsStayTrue ==
    [][last'.call \in {"check_request", "check_page_content", "check_shopify_indicators"} =>
          StickyFlags(analyzer) \subseteq StickyFlags(analyzer')]_vars

\* flags of all four kinds are true after a call that sets none of them
C21_Witness ==
    /\ last.call = "check_shopify_indicators"
    /\ analyzer.content_indicators.headless_shopify
    /\ analyzer.events.page_view
    /\ analyzer.parameter_matches.alart
    /\ analyzer.headless_indicators.api_calls

\* a verdict with every boolean false and every count 0
VerdictClear(v) ==
    /\ ~v.is_shopify /\ ~v.is_headless_shopify
    /\ ~v.has_axon /\ ~v.has_gtm /\ ~v.has_ga /\ ~v.has_ga4
    /\ ~v.has_land_event /\ ~v.has_page_view_event /\ ~v.has_page_viewed_event
    /\ ~v.has_matching_aleid /\ ~v.has_matching_alart
    /\ ~v.headless_shopify_details.uses_storefront_api
    /\ ~v.headless_shopify_details.uses_hydrogen
    /\ ~v.headless_shopify_details.uses_buy_sdk
    /\ ~v.headless_shopify_details.has_api_calls
    /\ v.headless_shopify_details.api_calls_count = 0
    /\ v.has_axon_ai_requests = 0
    /\ v.has_albss_requests = 0
    /\ v.has_applovin_requests = 0

\* C2: right after reset_flags, whatever the session saw before, get_results
\* reports every boolean false and every request count 0.
C2_ResetThenResultsClear ==
    last.call = "reset_flags" => VerdictClear(get_results(analyzer, "site", ShopUrl, ""))

\* C2 witness: reset_flags was called on an object that was not fresh
C2_Witness ==
    /\ last.call = "reset_flags"
    /\ ~last.fresh
    /\ VerdictClear(get_results(analyzer, "site", ShopUrl, ""))

\* the entries of the sites file
Sites == tester.sites_file.sites

\* every entry of the sites file is a mapping with a name and a url
AllWellFormed == \A i \in 1..Len(Sites) : WellFormed(Sites[i])

\* a result that the except clause of analyze_single_site built
IsErrorResult(r) == "error" \in DOMAIN r

\* C3: for every site of the batch, the session that the page load or the
\* static analysis of the site starts from is the re-initialized one: all
\* five groups as after construction, so no flag and no request record of an
\* earlier site is in it.
C3_EverySiteStartsFromResetSession ==
    /\ tester.start = NewAnalyzer
    /\ (tester.pc = "load_page" /\ observed = 0) => analyzer = NewAnalyzer

\* C3 witness: the second site is about to load, and the verdict of the first
\* one has flags and request records
C3_Witness ==
    /\ tester.pc = "load_page"
    /\ tester.k = 2
    /\ observed = 0
    /\ analyzer = NewAnalyzer
    /\ ~IsErrorResult(tester.results[1])
    /\ tester.results[1].has_applovin_requests > 0
    /\ tester.results[1].has_page_view_event
    /\ tester.results[1].is_shopify

\* C4: with a sites file whose entries are all well-formed, no exception
\* leaves the loop of run_tests; the results are one per site in the order of
\* the file, an error result carries site, url, error and error_type, and the
\* finished batch has a result for every site.
C4_WellFormedBatchOneResultPerSite ==
    (tester.sites_file.valid /\ AllWellFormed) =>
        /\ tester.pc /= "raised"
        /\ tester.pc \notin {"run_tests", "done"} =>
              Len(tester.results) = tester.k - 1
        /\ tester.pc = "done" => (Len(tester.results) = Len(Sites) /\ tester.written)
        /\ \A i \in 1..Len(tester.results) :
              LET r == tester.results[i] IN
              /\ r.site = Sites[i].name
              /\ r.url = prepare_url(Sites[i].url)
              /\ IsErrorResult(r) =>
                    /\ {"site", "url", "error", "error_type"} \subseteq DOMAIN r
                    /\ r.error \in {"Invalid IPv6 URL", "sleep length must be non-negative"}
                    /\ r.error_type = "ValueError"

\* C4 witness: a finished batch of two sites, the first with an error result
\* and the second with a result of its analysis
C4_Witness ==
    /\ tester.pc = "done"
    /\ tester.written
    /\ AllWellFormed
    /\ Len(tester.results) = 2
    /\ IsErrorResult(tester.results[1])
    /\ ~IsErrorResult(tester.results[2])
    /\ tester.results[1].site /= tester.results[2].site

\* C5: run_tests over a readable sites file always ends with the results
\* written, one per entry, and the result of a malformed entry (not a
\* mapping, or without name or url) is an error result.
C5_MalformedEntryGetsErrorResult ==
    (tester.sites_file.valid /\ tester.pc \in {"done", "raised"}) =>
        /\ tester.pc = "done"
        /\ tester.written
        /\ Len(tester.results) = Len(Sites)
        /\ \A i \in 1..Len(Sites) :
              ~WellFormed(Sites[i]) => IsErrorResult(tester.results[i])

\* C11: static analysis reports the land event iff the (first) utm_source
\* value of the URL is applovin in any case; utm_medium, utm_campaign and
\* every other parameter have no part in it.
C11_StaticLandIffUtmSource ==
    called = "analyze_static" =>
        (ret.result.events.land
            = (Lower(qs_first(parse_qs(urlparse_query(arg)), <<"utm_source">>))
                 = <<"applovin">>))

\* the script signals of a page: per script element one for each of the
\* three package paths in its src and one if its text has an API pattern
ScriptSignals(page) ==
    IF page.scripts.raises THEN 0
    ELSE Cardinality(
        {t \in (1..Len(page.scripts.elems))
                 \X {"@shopify/hydrogen", "@shopify/storefront-api", "shopify-buy"} :
            /\ ~page.scripts.elems[t[1]].src.raises
            /\ Contains(page.scripts.elems[t[1]].src.value, <<t[2]>>)})
       + Cardinality(
        {i \in 1..Len(page.scripts.elems) :
            /\ ~page.scripts.elems[i].text.raises
            /\ \E k \in 1..Len(HEADLESS_SHOPIFY_INDICATORS.script_patterns) :
                  Contains(Lower(page.scripts.elems[i].text.value),
                           Lower(HEADLESS_SHOPIFY_INDICATORS.script_patterns[k]))})

\* the meta signals of a page: per meta element one for each meta key found
\* in its name or its content
MetaSignals(page) ==
    IF page.metas.raises THEN 0
    ELSE Cardinality(
        {t \in (1..Len(page.metas.elems)) \X (1..Len(HEADLESS_SHOPIFY_INDICATORS.meta_tags)) :
            LET meta == page.metas.elems[t[1]]
                pattern == Lower(HEADLESS_SHOPIFY_INDICATORS.meta_tags[t[2]])
            IN \/ (~meta.name.raises /\ Contains(Lower(meta.name.value), pattern))
               \/ (~meta.content.raises /\ Contains(Lower(meta.content.value), pattern))})

\* C12: check_page_content turns headless_shopify true only for a page with
\* at least 2 script signals or at least 2 meta signals; one script signal
\* and one meta signal together leave it false.
C12_HeadlessNeedsTwoInOneTally ==
    \A page \in ContentPages :
        LET before == analyzer.content_indicators.headless_shopify
            after == check_page_content(analyzer, page).self.content_indicators.headless_shopify
        IN /\ (after /\ ~before) => (ScriptSignals(page) >= 2 \/ MetaSignals(page) >= 2)
           /\ (ScriptSignals(page) = 1 /\ MetaSignals(page) = 1 /\ ~before) => ~after

\* C12 witness: the page with one hydrogen script and one wallet meta tag
\* has been checked, and headless_shopify is false
C12_Witness ==
    /\ last.call = "check_page_content"
    /\ last.log = {}
    /\ analyzer.content_indicators.axon
    /\ ~analyzer.content_indicators.gtm
    /\ ~analyzer.content_indicators.ga4
    /\ analyzer.headless_indicators.hydrogen
    /\ ~analyzer.content_indicators.headless_shopify
    /\ \E page \in ContentPages : ScriptSignals(page) = 1 /\ MetaSignals(page) = 1

\* the URL has a known API endpoint / the headers have a Shopify header name
EndpointMatch(url) ==
    \E i \in 1..Len(HEADLESS_SHOPIFY_INDICATORS.api_endpoints) :
        Contains(Lower(url), Lower(HEADLESS_SHOPIFY_INDICATORS.api_endpoints[i]))
HeaderMatch(headers) ==
    \E i \in 1..Len(HEADLESS_SHOPIFY_INDICATORS.request_headers) :
        Contains(Lower(headers), Lower(HEADLESS_SHOPIFY_INDICATORS.request_headers[i]))

\* C13: check_request turns headless_shopify true only for a request that
\* matches an endpoint and a header at once, and api_calls true exactly for a
\* request that matches one of the two; so in a session of requests
\* headless_shopify is true only if one logged request matches both.
C13_HeadlessApiNeedsBothOnOneRequest ==
    /\ \A request \in Requests :
          LET after == check_request(analyzer, request).self IN
          /\ after.content_indicators.headless_shopify =
                (\/ analyzer.content_indicators.headless_shopify
                 \/ (EndpointMatch(request.url) /\ HeaderMatch(request.headers)))
          /\ after.headless_indicators.api_calls =
                (\/ analyzer.headless_indicators.api_calls
                 \/ EndpointMatch(request.url)
                 \/ HeaderMatch(request.headers))
    /\ analyzer.content_indicators.headless_shopify =>
          \E i \in 1..Len(analyzer.network_requests.shopify_api) :
              LET logged == analyzer.network_requests.shopify_api[i] IN
              EndpointMatch(logged.url) /\ HeaderMatch(logged.headers)

\* C13 witness: an endpoint-only request and a header-only request have been
\* observed; api_calls is true and headless_shopify is false
C13_Witness ==
    /\ last.call = "check_request"
    /\ Len(analyzer.network_requests.shopify_api) = 2
    /\ LET first == analyzer.network_requests.shopify_api[1]
           second == analyzer.network_requests.shopify_api[2]
       IN /\ EndpointMatch(first.url) /\ ~HeaderMatch(first.headers)
          /\ HeaderMatch(second.headers) /\ ~EndpointMatch(second.url)
    /\ analyzer.headless_indicators.api_calls
    /\ ~analyzer.content_indicators.headless_shopify

\* C14: the vendor data parse_v1_request returns is the applovin object of
\* the payload whenever the payload has the key applovin, and the axon object
\* (or the empty object) only when it has not.
C14_V1PrefersApplovinWhenPresent ==
    called = "parse_v1_request" =>
        ret[2] = IF Has(arg.payload, "applovin")
                 THEN Get(arg.payload, "applovin", {})
                 ELSE Get(arg.payload, "axon", {})

\* the object under a key of the payload, the empty object if there is none
ObjectAt(payload, key) == IF Has(payload, key) THEN Get(payload, key, {}) ELSE {}

\* C15: whatever keys the payload and the URL leave out, the three parsers
\* return, and what is left out comes back as the empty string: the event
\* name and the vendor data of v1, the event name, art and event id of v2,
\* the alart and aleid of the URL.
C15_MissingKeysGiveEmptyStrings ==
    /\ called = "parse_v1_request" =>
          /\ Len(ret) = 2
          /\ ~Has(arg.payload, "name") => ret[1] = ""
          /\ (~Has(arg.payload, "applovin") /\ ~Has(arg.payload, "axon")) =>
                (Get(ret[2], "art", <<>>) = <<>> /\ Get(ret[2], "eventId", <<>>) = <<>>)
    /\ called = "parse_v2_request" =>
          /\ Len(ret) = 3
          /\ ~Has(ObjectAt(arg.payload, "event"), "name") => ret[1] = ""
          /\ ~Has(ObjectAt(arg.payload, "applovin"), "art") => ret[2] = <<>>
          /\ ~Has(ObjectAt(arg.payload, "applovin"), "eventId") => ret[3] = <<>>
    /\ called = "parse_url_parameters" =>
          /\ Len(ret) = 2
          /\ ~Contains(arg.url, <<"alart">>) => ret[1] = <<>>
          /\ ~Contains(arg.url, <<"aleid">>) => ret[2] = <<>>

\* C15 witness: parse_v2_request was applied to a payload with an applovin
\* object that has an art but no eventId, and with no event object
C15_Witness ==
    /\ called = "parse_v2_request"
    /\ ~Has(arg.payload, "event")
    /\ Has(arg.payload, "applovin")
    /\ ret = <<"", Art1234, <<>> >>

\* a request that check_request hands to _process_pixel_request
IsPixelRequest(request) ==
    /\ Contains(Lower(request.url), <<"https://", "b.", "applovin.com", "/">>)
    /\ Contains(Lower(request.url), <<"pixel">>)
    /\ request.method = "POST"

\* a pixel request whose body is a JSON object and whose page URL can be read
IsParsedPixel(request) ==
    /\ IsPixelRequest(request)
    /\ request.post_data.kind = "object"
    /\ ~request.page_url.raises

\* the <<art, eventId>> a pixel payload carries, in the format its URL selects
PayloadIds(request) ==
    IF \/ Contains(request.url, <<"/", "shopify", "/", "v2", "/", "pixel">>)
       \/ Contains(request.url, <<"/", "v2", "/", "pixel">>)
    THEN <<parse_v2_request(request.post_data.json)[2],
           parse_v2_request(request.post_data.json)[3]>>
    ELSE <<Get(parse_v1_request(request.post_data.json)[2], "art", <<>>),
           Get(parse_v1_request(request.post_data.json)[2], "eventId", <<>>)>>

\* urlparse(url).path: from the first '/' after the host up to the query or
\* the fragment
UrlPath(url) ==
    LET rest == SubSeq(url, 2, Len(url))
        starts == {i \in 1..Len(rest) : rest[i] \in {"/", "?", "#"}}
        from == IF starts = {} THEN Len(rest) + 1 ELSE Min(starts)
        tail == SubSeq(rest, from, Len(rest))
        ends == {i \in 1..Len(tail) : tail[i] \in {"?", "#"}}
    IN IF ends = {} THEN tail ELSE SubSeq(tail, 1, Min(ends) - 1)

\* the path of the URL contains /shopify/v2/pixel or /v2/pixel
V2Path(url) ==
    \/ Contains(UrlPath(url), <<"/", "shopify", "/", "v2", "/", "pixel">>)
    \/ Contains(UrlPath(url), <<"/", "v2", "/", "pixel">>)

\* the summaries check_request adds to the tracking list for a request
Summaries(self, request) ==
    LET after == check_request(self, request).self.network_requests.tracking IN
    SubSeq(after, Len(self.network_requests.tracking) + 1, Len(after))

\* C16: a POST request to the b.applovin.com pixel endpoint whose body is a
\* JSON object is parsed by exactly one format (it adds one event summary):
\* the v2 format if the path of its URL contains /shopify/v2/pixel or
\* /v2/pixel, the v1 format if not.
C16_FormatSelectedByPath ==
    \A request \in {q \in Requests : IsParsedPixel(q)} :
        Summaries(analyzer, request) =
            << <<"Axon Event: ",
                 IF V2Path(request.url)
                 THEN parse_v2_request(request.post_data.json)[1]
                 ELSE parse_v1_request(request.post_data.json)[1]>> >>

\* the event name of a pixel payload, in the format its URL selects
EventName(request) ==
    IF \/ Contains(request.url, <<"/", "shopify", "/", "v2", "/", "pixel">>)
       \/ Contains(request.url, <<"/", "v2", "/", "pixel">>)
    THEN parse_v2_request(request.post_data.json)[1]
    ELSE parse_v1_request(request.post_data.json)[1]

\* C17: a pixel payload named land, page_view or page_viewed turns the
\* events flag of that name true and leaves the other two as they were; a
\* payload with another name, or none, leaves all three as they were, and
\* nothing is raised.
C17_EventSetsOnlyItsFlag ==
    \A request \in {q \in Requests : IsParsedPixel(q)} :
        LET r == check_request(analyzer, request)
            name == EventName(request)
        IN /\ r.exc = "none"
           /\ r.self.events =
                [e \in {"land", "page_view", "page_viewed"} |->
                    analyzer.events[e] \/ e = name]

\* C17 witness: a page_view payload and then a checkout payload have been
\* processed; page_view is the only event flag that is true
C17_Witness ==
    /\ last.call = "check_request"
    /\ last.exc = "none"
    /\ analyzer.network_requests.tracking
          = << <<"Axon Event: ", "page_view">>, <<"Axon Event: ", "checkout">> >>
    /\ analyzer.events = [land |-> FALSE, page_view |-> TRUE, page_viewed |-> FALSE]

\* C6: a pixel request sets parameter_matches.alart iff the payload art and
\* the page URL's alart are both non-empty and equal, and aleid iff the payload
\* eventId and the URL's aleid are both non-empty and equal; otherwise the flag
\* keeps its value.
C6_MatchIffBothNonEmptyAndEqual ==
    \A request \in {q \in Requests : IsParsedPixel(q)} :
        LET after == check_request(analyzer, request).self
            ids == PayloadIds(request)
            url_ids == parse_url_parameters(request.page_url.value)
        IN /\ after.parameter_matches.alart =
                (\/ analyzer.parameter_matches.alart
                 \/ (ids[1] /= <<>> /\ url_ids[1] /= <<>> /\ ids[1] = url_ids[1]))
           /\ after.parameter_matches.aleid =
                (\/ analyzer.parameter_matches.aleid
                 \/ (ids[2] /= <<>> /\ url_ids[2] /= <<>> /\ ids[2] = url_ids[2]))

\* C6 witness: a parsed pixel request matched on alart, while the aleid
\* stayed unmatched
C6_Witness ==
    /\ last.call = "check_request"
    /\ "Axon Event" \in last.log
    /\ analyzer.parameter_matches.alart
    /\ ~analyzer.parameter_matches.aleid

\* C7: a pixel request with no body or a body that is not JSON raises nothing
\* and leaves events, parameter_matches and the tracking list as they were;
\* a parsed pixel request still adds its summary to the tracking list.
C7_UnparseableBodyIsSilent ==
    /\ \A request \in {q \in Requests : /\ IsPixelRequest(q)
                                        /\ q.post_data.kind \in {"none", "empty", "text"}} :
          LET r == check_request(analyzer, request) IN
          /\ r.exc = "none"
          /\ r.self.events = analyzer.events
          /\ r.self.parameter_matches = analyzer.parameter_matches
          /\ r.self.network_requests.tracking = analyzer.network_requests.tracking
    /\ \A request \in {q \in Requests : IsParsedPixel(q)} :
          LET r == check_request(analyzer, request) IN
          /\ r.exc = "none"
          /\ Len(r.self.network_requests.tracking)
                = Len(analyzer.network_requests.tracking) + 1

\* C7 witness: a pixel request was given up with a warning after another one
\* had been logged, and the summary and the event of that one are still there
C7_Witness ==
    /\ last.call = "check_request"
    /\ last.exc = "none"
    /\ "warning: pixel request" \in last.log
    /\ Len(analyzer.network_requests.applovin) = 2
    /\ Len(analyzer.network_requests.tracking) = 1
    /\ analyzer.events.page_view

\* C8: the URL prepare_url returns carries a non-empty alart and a non-empty
\* aleid query parameter.
C8_PreparedUrlHasBothParameters ==
    called = "prepare_url" =>
        /\ parse_url_parameters(ret)[1] /= <<>>
        /\ parse_url_parameters(ret)[2] /= <<>>

IsPrefix(s, t) == Len(s) <= Len(t) /\ SubSeq(t, 1, Len(s)) = s

\* C20: within a session every list of network_requests is append-only: over
\* any call other than reset_flags, the old content of each of the five lists
\* is a prefix of its new content.
C20_RequestListsAppendOnly ==
    [][last'.call /= "reset_flags" =>
          \A k \in {"axon_ai", "albss", "applovin", "tracking", "shopify_api"} :
              IsPrefix(analyzer.network_requests[k], analyzer'.network_requests[k])]_vars

\* a second, different event has been appended to the tracking list, and the
\* same request has been stored in the applovin list
C20_Witness ==
    /\ last.call = "check_request"
    /\ Len(analyzer.network_requests.tracking) = 2
    /\ analyzer.network_requests.tracking[1] /= analyzer.network_requests.tracking[2]
    /\ Len(analyzer.network_requests.applovin) = 2

\* C19: get_results changes none of the five state groups of the session, and
\* a call that directly follows a call with the same arguments returns an
\* equal verdict.
C19_GetResultsReadOnly ==
    [][last'.call = "get_results" =>
          /\ analyzer'.content_indicators = analyzer.content_indicators
          /\ analyzer'.network_requests = analyzer.network_requests
          /\ analyzer'.events = analyzer.events
          /\ analyzer'.parameter_matches = analyzer.parameter_matches
          /\ analyzer'.headless_indicators = analyzer.headless_indicators
          /\ (last.call = "get_results" /\ arg' = arg) => ret' = ret]_vars

\* a verdict read from a session that has recorded a request, an event and a
\* content indicator
C19_Witness ==
    /\ last.call = "get_results"
    /\ ret.has_applovin_requests > 0
    /\ ret.has_page_view_event
    /\ ret.has_gtm
    /\ ret = get_results(analyzer, arg[1], arg[2], arg[3])

\* a verdict without any trace of a request
NoRequestSeen(v) ==
    /\ ~v.has_land_event /\ ~v.has_page_view_event /\ ~v.has_page_viewed_event
    /\ ~v.has_matching_aleid /\ ~v.has_matching_alart
    /\ ~v.headless_shopify_details.has_api_calls
    /\ v.headless_shopify_details.api_calls_count = 0
    /\ v.has_axon_ai_requests = 0
    /\ v.has_albss_requests = 0
    /\ v.has_applovin_requests = 0

\* C31: in dynamic mode with intercept_requests = false no request reaches the
\* session and there is no settle wait: every result is a verdict (a negative
\* wait_time raises nothing) with the event flags, the parameter matches and
\* has_api_calls false and every request count 0, and its is_headless_shopify
\* is what the script and meta checks of the loaded page give.
C31_NoInterceptionNoRequests ==
    (Dynamic /\ ~tester.config.intercept_requests) =>
        /\ analyzer.network_requests = NewAnalyzer.network_requests
        /\ \A i \in 1..Len(tester.results) :
              ~IsErrorResult(tester.results[i]) /\ NoRequestSeen(tester.results[i])
        /\ (tester.pc \in {"site", "done"} /\ tester.results /= <<>>) =>
              tester.results[Len(tester.results)].is_headless_shopify
                  = check_page_content(NewAnalyzer, tester.page).self
                        .content_indicators.headless_shopify

\* without interception and with a negative wait_time, a site whose meta
\* elements give two signals got a verdict with is_headless_shopify true
C31_Witness ==
    /\ Dynamic /\ ~tester.config.intercept_requests /\ ~tester.config.wait_time_ok
    /\ tester.pc = "done"
    /\ Len(tester.results) = 2
    /\ tester.results[2].is_headless_shopify
    /\ ~tester.results[1].is_headless_shopify

\* C18: when page.goto or the wait for network idle timed out, load_page
\* returns a warning that is not empty, and the verdict of the site carries
\* that warning.
C18_TimeoutGivesWarning ==
    tester.timed_out =>
        /\ tester.pc \in {"check_page_content", "check_shopify_indicators", "sleep"} =>
              tester.warning /= ""
        /\ (tester.pc \in {"site", "done"} /\ tester.results /= <<>>) =>
              LET r == tester.results[Len(tester.results)] IN
              ~IsErrorResult(r) => (r.warning /= "" /\ r.warning = tester.warning)

\* the step of analyze_single_site that checks the content of a page which
\* cannot be read: page.content() or the query for scripts or metas raises
UnreadableContentChecked ==
    /\ tester.pc = "check_page_content"
    /\ tester'.pc /= "check_page_content"
    /\ \/ tester.page.content.raises
       \/ tester.page.scripts.raises
       \/ tester.page.metas.raises

\* the settle wait of the site raises
WaitRaises == tester.config.intercept_requests /\ ~tester.config.wait_time_ok

C10_FirstMatchingDomainWins ==
    called = "is_domain_of_interest" =>
        LET hits == {i \in 1..Len(DOMAINS_OF_INTEREST) :
                        Contains(Lower(arg), DOMAINS_OF_INTEREST[i].domain)}
        IN IF hits = {}
           THEN ret = <<FALSE, FALSE>>
           ELSE ret = <<TRUE, DOMAINS_OF_INTEREST[Min(hits)].critical>>

\* C10 witness: an upper-case critical domain after a non-critical one
C10_Witness ==
    /\ called = "is_domain_of_interest"
    /\ Contains(arg, <<"axon.ai", "APPLOVIN.COM">>)
    /\ ret = <<TRUE, TRUE>>

====
